---- MODULE Spec2Model ----
(***************************************************************************)
(* A model of dynamorm's table operations: the key expression builder of   *)
(* DynamoTable3.query, the paginated executor DynaModel._yield_items, the  *)
(* update expression builder of DynamoTable3.update, and put / put_unique  *)
(* against a store that evaluates condition expressions.                   *)
(*                                                                         *)
(* Python strings that the code splits on the '__' delimiter are modelled  *)
(* as sequences of atoms: the atom "_" is one underscore character and any *)
(* other atom is a run of characters without underscores, so the token     *)
(* bar__begins_with is <<"bar", "_", "_", "begins", "_", "with">>.         *)
(***************************************************************************)
EXTENDS Integers, Sequences, FiniteSets, TLC

VARIABLES
    \* DynaModel._yield_items, a generator, and its consumer
    method,     \* "query" or "scan"
    kwargs,     \* the key kwargs of the call, in insertion order
    dyn,        \* kwargs[dynamo_kwargs_key]: None while the key is absent
    gpc,        \* where the generator is: "call", "items", "done", "raised"
    demand,     \* the consumer has called next() and waits for an item
    stopped,    \* the consumer has dropped the generator
    resp,       \* the response of the last wire request
    pending,    \* the items of resp the for loop has not reached yet
    yielded,    \* every item handed to the consumer, in order
    wire,       \* the last request sent to the transport (None before it)
    gexc,       \* the exception that ended the generator
    nreq,       \* number of wire requests issued
    served,     \* history: the items of every response, in order
    scanned,    \* history: the sum of the ScannedCount of every response
    nolast,     \* history: number of responses without LastEvaluatedKey
    dyn0,       \* history: the dynamo kwargs the caller passed
    uniform     \* history: every response so far had 2 items, ScannedCount 2 and a cursor

VARIABLES
    \* one call of DynamoTable3.query
    q_kwargs,   \* the key kwargs of the call, in insertion order
    q_dict,     \* the query_kwargs of the call (None when not passed)
    q_res,      \* what the call did: exception, wire request, caller's dict
    q_calls     \* number of calls made

VARIABLES
    \* one call of DynamoTable3.update, the transport left open
    u_kwargs,   \* the mutation kwargs of the call, in insertion order
    u_res,      \* what the call did: exception, wire request
    u_calls     \* number of calls made

pvars == <<method, kwargs, dyn, gpc, demand, stopped, resp, pending, yielded,
           wire, gexc, nreq, served, scanned, nolast, dyn0, uniform>>

qvars == <<q_kwargs, q_dict, q_res, q_calls>>

\* The table's stored items, a loaded model instance, and the record of the
\* last operation on the table.
VARIABLES store, inst, s_op, s_item, s_exc, s_code, s_sent, s_false, s_pre, s_post

uvars == <<u_kwargs, u_res, u_calls>>

svars == <<store, inst, s_op, s_item, s_exc, s_code, s_sent, s_false, s_pre, s_post>>

VARIABLES
    \* one call of DynaModel.query or of DynamoTable3.scan with filter arguments
    f_method,   \* "query" or "scan" ("none" before the call)
    f_args,     \* the positional arguments of the call
    f_kwargs,   \* the keyword arguments of the call, in insertion order
    f_dict,     \* the query_kwargs / scan_kwargs of the call (None when not passed)
    f_res,      \* what the call did: exception, wire request, caller's dict
    f_calls     \* number of calls made

fvars == <<f_method, f_args, f_kwargs, f_dict, f_res, f_calls>>

VARIABLES
    \* one call of scan with a single keyword filter, built from an attribute
    \* path and an operator suffix
    a_path,     \* the segments of the attribute path
    a_op,       \* the operator suffix (None when the token has none)
    a_value,    \* the value of the filter
    a_token,    \* the keyword: the segments and the suffix joined by '__'
    a_parsed,   \* what the parser of Q made of the keyword: path, operator, rest
    a_res,      \* what Q returned for the filter: exception, expression
    a_scan,     \* what the scan did: exception, wire request, caller's dict
    a_calls     \* number of calls made

VARIABLES
    \* one call of DynamoTable3.get, get_batch or update with its key maps,
    \* and the get_batch generator
    r_op,         \* "get", "get_batch" or "update" ("none" before the call)
    r_keys,       \* the key maps given (one for get, the kwargs for update)
    r_consistent, \* the consistent argument
    r_attrs,      \* the attrs argument (None when not passed)
    r_pc,         \* "idle", "created", "call", "items", "done" or "raised"
    r_exc,        \* the exception the call ended with ("none" otherwise)
    r_kwargs,     \* batch_get_kwargs, the entry of the next request
    r_sent,       \* history: the requests sent, in order
    r_resps,      \* history: the responses received, in order
    r_pending,    \* the items of the current response not yet yielded
    r_yielded     \* history: the items yielded or returned, in order

rvars == <<r_op, r_keys, r_consistent, r_attrs, r_pc, r_exc, r_kwargs, r_sent,
           r_resps, r_pending, r_yielded>>

VARIABLES
    \* the memoized handles and the threads calling get_resource / get_table
    h_resource,   \* DynamoCommon3._resource (None while the attribute is unset)
    h_table,      \* cls._table (None while the attribute is unset)
    h_call,       \* per thread: "get_resource" or "get_table" ("none" before)
    h_kw,         \* per thread: the kwargs its get_resource call runs with
    h_pc,         \* per thread: the statement it is at
    h_new,        \* per thread: the object it constructed and has not stored yet
    h_res,        \* per thread: the resource get_resource returned to get_table
    h_got,        \* per thread: what its call returned (None before)
    h_made,       \* history: number of calls of boto3.resource
    h_tmade       \* history: number of calls of resource.Table

hvars == <<h_resource, h_table, h_call, h_kw, h_pc, h_new, h_res, h_got, h_made, h_tmade>>

avars == <<a_path, a_op, a_value, a_token, a_parsed, a_res, a_scan, a_calls>>

\* The variables of the calls that take filter arguments, of the key reads
\* and of the memoized handles.
x2vars == <<fvars, avars, rvars, hvars>>

VARIABLES
    \* two callers of put_unique, running concurrently on the table `store`
    c_pc,       \* per caller: "idle", "built" (request built) or "done"
    c_item,     \* per caller: the item it puts (None before the call)
    c_code,     \* per caller: the error code of the transport ("none" if none)
    c_exc       \* per caller: the exception its call left with ("none" if none)

cvars == <<c_pc, c_item, c_code, c_exc>>

VARIABLES
    \* one table object, the live table it describes, and its update_table
    t_decl,     \* the declaration: table capacity and the global indexes
    t_live,     \* the live table: status, capacity, global secondary indexes
    t_cache,    \* the attributes the boto3 Table resource has loaded (None before)
    t_pc,       \* "idle", "pass", "wait_table", "wait_index", "decide",
                \* "returned" or "raised"
    t_todo,     \* the indexes the loop of wait_for_active has yet to wait for
    t_ops,      \* self._update_table_ops (None or a number)
    t_ret,      \* what the last invocation returned (None if it did not)
    t_exc,      \* the exception the last invocation ended with ("none" if none)
    t_calls,    \* history: number of invocations by the caller
    t_issued,   \* history: operations the store accepted in this invocation
    t_inpass,   \* history: operations the store accepted in this pass
    t_busy,     \* history: an operation was sent while another was in progress
    t_prev      \* history: the exception the invocation before ended with

tvars == <<t_decl, t_live, t_cache, t_pc, t_todo, t_ops, t_ret, t_exc, t_calls,
           t_issued, t_inpass, t_busy, t_prev>>

VARIABLES
    \* one model instance and its saves
    i_self,     \* the attributes of the instance (None before there is one)
    i_valid,    \* self._validated_data
    i_loaded,   \* the instance was made by Model.get (not by the constructor)
    i_op,       \* the last operation on the instance
    i_exc,      \* the exception the last operation ended with
    i_code,     \* the error code of the transport in it ("none" if none)
    i_sent,     \* the kwargs the last save passed to update_item (None if none)
    i_puts,     \* the number of put_item requests the last save sent
    i_base,     \* history: the values last loaded or last saved
    i_want,     \* history: the fields that differed from them at the last save
    i_prior     \* history: the stored item before the last save

ivars == <<i_self, i_valid, i_loaded, i_op, i_exc, i_code, i_sent, i_puts,
           i_base, i_want, i_prior>>

\* The variables of the concurrent writes, of the saves of an instance and of
\* update_table.
yvars == <<cvars, tvars, ivars>>

xvars == <<x2vars, yvars>>

vars == <<pvars, qvars, uvars, svars, xvars>>

(***************************************************************************)
(* Bounds of the model.                                                    *)
(***************************************************************************)
MaxPages == 3
MaxPageLen == 2
MaxLimit == 3
MaxTerms == 3
MaxMutations == 3
MaxValue == 2
MaxFilters == 2
MaxArgs == 2
MaxPath == 2
MaxKeys == 3
MaxThreads == 2
MaxInvocations == 2

(***************************************************************************)
(* Python values: an absent value is the empty sequence, a present one a   *)
(* sequence of length one (used for optional dicts and optional keys).     *)
(***************************************************************************)
None == <<>>
Some(v) == <<v>>

\* A dict with string keys is a function; d[k] = v stores, k in d tests.
EmptyDict == <<>>
DictSet(d, k, v) == (k :> v) @@ d
Has(d, k) == k \in DOMAIN d

\* A caller's value: a scalar (s) or a list of scalars (l).
Scalar(n) == [t |-> "scalar", s |-> n, l |-> <<>>]
List(q) == [t |-> "list", s |-> 0, l |-> q]

(***************************************************************************)
(* str.split('__') and str.split('__', 1): left to right, non-overlapping  *)
(* occurrences of two consecutive underscores; n is the number of splits   *)
(* still allowed (-1: no limit).                                           *)
(***************************************************************************)
RECURSIVE SplitAcc(_, _, _)
SplitAcc(s, cur, n) ==
    IF s = <<>> THEN <<cur>>
    ELSE IF n # 0 /\ Len(s) >= 2 /\ s[1] = "_" /\ s[2] = "_"
         THEN <<cur>> \o SplitAcc(Tail(Tail(s)), <<>>, IF n > 0 THEN n - 1 ELSE n)
         ELSE SplitAcc(Tail(s), Append(cur, Head(s)), n)

Split(s) == SplitAcc(s, <<>>, -1)
Split1(s) == SplitAcc(s, <<>>, 1)

\* '__'.join(parts)
RECURSIVE Join(_)
Join(parts) ==
    IF Len(parts) = 0 THEN <<>>
    ELSE IF Len(parts) = 1 THEN parts[1]
    ELSE parts[1] \o <<"_", "_">> \o Join(Tail(parts))

(***************************************************************************)
(* The table of the tests' TestModel: hash key foo, range key bar, and the *)
(* global index named baz (hash key baz, range key bar).                   *)
(***************************************************************************)
hash_key == <<"foo">>
range_key == <<"bar">>
dynamorm_fields == {<<"foo">>, <<"bar">>, <<"baz">>, <<"count">>}
indexes == {[name |-> "baz", hash_key |-> <<"baz">>, range_key |-> Some(<<"bar">>)]}

table_attribute_fields == {hash_key} \cup {range_key}

index_attribute_fields(index_name) ==
    UNION {{ix.hash_key} \cup {ix.range_key[i] : i \in DOMAIN ix.range_key} :
           ix \in {i \in indexes : i.name = index_name}}

(***************************************************************************)
(* boto3 condition objects.  A leaf is an attribute, an operator and the   *)
(* operands it was called with; And / Or / Not combine expressions.        *)
(***************************************************************************)
Leaf(attr, op, args) == [k |-> "leaf", attr |-> attr, op |-> op, args |-> args]
And(l, r) == [k |-> "and", l |-> l, r |-> r]
Or(l, r) == [k |-> "or", l |-> l, r |-> r]
Not(e) == [k |-> "not", e |-> e]

\* The result of a call: a value, or the exception it raised.
Ok(v) == [exc |-> "none", val |-> Some(v)]
Raise(e) == [exc |-> e, val |-> None]

OP_eq == <<"eq">>
OP_begins_with == <<"begins", "_", "with">>
OP_between == <<"between">>

\* The methods of boto3's Key that take one operand, and the one taking two.
KeyMethods1 == {<<"eq">>, <<"lt">>, <<"lte">>, <<"gt">>, <<"gte">>, OP_begins_with}
KeyMethods2 == {OP_between}

(***************************************************************************)
(* DynamoTable3.query: the key expression builder.                         *)
(***************************************************************************)
\* key.split('__') unpacked into (key, op); op is eq when the token does not
\* split into exactly two parts.
QueryKey(token) == IF Len(Split(token)) = 2 THEN Split(token)[1] ELSE token
QueryOp(token) == IF Len(Split(token)) = 2 THEN Split(token)[2] ELSE OP_eq

\* (mutant) a query is validated against the table's keys whatever it targets
attr_fieldsOfTable(query_kwargs) == table_attribute_fields

\* The key schema a query is validated against.
attr_fields(query_kwargs) ==
    IF Has(query_kwargs, "IndexName")
    THEN index_attribute_fields(query_kwargs["IndexName"])
    ELSE table_attribute_fields

\* (mutant) begins_with is refused like an operator the key does not have
KeyConditionNoPrefix(key, op, value) ==
    IF op \in KeyMethods1 \ {OP_begins_with} THEN Ok(Leaf(key, op, <<value>>))
    ELSE IF op \in KeyMethods2 THEN Raise("TypeError")
    ELSE Raise("AttributeError")

\* getattr(Key(key), op)(value)
KeyCondition(key, op, value) ==
    IF op \in KeyMethods1 THEN Ok(Leaf(key, op, <<value>>))
    ELSE IF op \in KeyMethods2 THEN Raise("TypeError")
    ELSE Raise("AttributeError")

\* One pass of the while loop for the popped (last) entry of kwargs.
QueryTerm(query_kwargs, entry) ==
    LET key == QueryKey(entry.key)
        op == QueryOp(entry.key)
        cond == KeyCondition(key, op, entry.value)
    IN  IF key \notin attr_fields(query_kwargs) THEN Raise("InvalidSchemaField")
        ELSE IF cond.exc # "none" THEN Raise(cond.exc)
        ELSE IF Has(query_kwargs, "KeyConditionExpression")
             THEN Ok(DictSet(query_kwargs, "KeyConditionExpression",
                             And(query_kwargs["KeyConditionExpression"], cond.val[1])))
             ELSE Ok(DictSet(query_kwargs, "KeyConditionExpression", cond.val[1]))

\* The while loop: the exception raised (or none) and query_kwargs as the
\* loop left it.
RECURSIVE QueryLoop(_, _)
QueryLoop(query_kwargs, kw) ==
    IF Len(kw) = 0 THEN [exc |-> "none", dict |-> query_kwargs]
    ELSE LET r == QueryTerm(query_kwargs, kw[Len(kw)])
         IN  IF r.exc # "none" THEN [exc |-> r.exc, dict |-> query_kwargs]
             ELSE QueryLoop(r.val[1], SubSeq(kw, 1, Len(kw) - 1))

\* query(query_kwargs, **kwargs): exc is the exception raised, wire the
\* request sent to the transport (None when the call raised before it), and
\* shared the caller's query_kwargs dict after the call (the loop writes
\* into the caller's dict when one was passed).
TableQuery(qk, kw) ==
    IF Len(kw) \notin {1, 2}
    THEN [exc |-> "AssertionError", wire |-> None, shared |-> qk]
    ELSE LET r == QueryLoop(IF qk = None THEN EmptyDict ELSE qk[1], kw)
         IN  [exc |-> r.exc,
              wire |-> IF r.exc = "none" THEN Some(r.dict) ELSE None,
              shared |-> IF qk = None THEN None ELSE Some(r.dict)]

(***************************************************************************)
(* DynamoTable3.scan, without filter arguments: scan_kwargs or {}.         *)
(***************************************************************************)
TableScan(sk) ==
    [exc |-> "none",
     wire |-> Some(IF sk = None THEN EmptyDict ELSE sk[1]),
     shared |-> sk]

(***************************************************************************)
(* DynamoTable3.update: the update expression builder.                     *)
(***************************************************************************)
\* key.split('__', 1) unpacked into (key, function); function is None when
\* the token holds no '__'.
UpdateKey(token) == Split1(token)[1]
UpdateFunction(token) == IF Len(Split1(token)) = 2 THEN Some(Split1(token)[2]) ELSE None

\* UPDATE_FUNCTION_TEMPLATES: the functions that have a template.
UPDATE_FUNCTION_TEMPLATES ==
    {None, Some(<<"append">>), Some(<<"plus">>), Some(<<"minus">>),
     Some(<<"if", "_", "not", "_", "exists">>)}

\* '#uk_{0}'.format(key) and ':uv_{0}'.format(key)
NamePlaceholder(key) == <<"#uk_", key>>
ValuePlaceholder(key) == <<":uv_", key>>

\* The SET clause a template gives for key: the name placeholder it assigns,
\* the function, and the value placeholder it reads.
SetClause(function, key) ==
    [uk |-> NamePlaceholder(key), fn |-> function, uv |-> ValuePlaceholder(key)]

\* (mutant) only the hash key is taken for a key attribute
IsKeyAttributeHashOnly(key) == key = hash_key

\* key in (self.hash_key, self.range_key)
IsKeyAttribute(key) == key \in {hash_key, range_key}

EmptyUpdate ==
    [exc |-> "none", Key |-> EmptyDict, update_fields |-> <<>>,
     expr_names |-> EmptyDict, expr_vals |-> EmptyDict]

\* One pass of the for loop over kwargs.
UpdateEntry(acc, entry) ==
    LET key == UpdateKey(entry.key)
        function == UpdateFunction(entry.key)
    IN  IF key \notin dynamorm_fields
        THEN [acc EXCEPT !.exc = "InvalidSchemaField"]
        ELSE IF IsKeyAttribute(key)
        THEN [acc EXCEPT !.Key = DictSet(acc.Key, key, entry.value)]
        ELSE IF function \notin UPDATE_FUNCTION_TEMPLATES
        THEN [acc EXCEPT !.exc = "KeyError"]
        ELSE [acc EXCEPT
                 !.update_fields = Append(acc.update_fields, SetClause(function, key)),
                 !.expr_names = DictSet(acc.expr_names, NamePlaceholder(key), key),
                 !.expr_vals = DictSet(acc.expr_vals, ValuePlaceholder(key), entry.value)]

\* The for loop, left at the first exception.
RECURSIVE UpdateLoop(_, _)
UpdateLoop(acc, kw) ==
    IF Len(kw) = 0 \/ acc.exc # "none" THEN acc
    ELSE UpdateLoop(UpdateEntry(acc, Head(kw)), Tail(kw))

\* The request update() builds from the mutation kwargs, before conditions.
UpdateRequest(kw) == UpdateLoop(EmptyUpdate, kw)

(***************************************************************************)
(* Q: a condition expression from a mapping of attr__op tokens to values.  *)
(***************************************************************************)
PyTrue == [t |-> "bool", s |-> 1, l |-> <<>>]
PyFalse == [t |-> "bool", s |-> 0, l |-> <<>>]
PyNone == [t |-> "none", s |-> 0, l |-> <<>>]
Str(q) == [t |-> "str", s |-> 0, l |-> q]

\* isinstance(value, collections.Iterable), and the i-th element of *value
IsIterable(value) == value.t \in {"list", "str"}
Element(value, i) == IF value.t = "str" THEN Str(<<value.l[i]>>) ELSE Scalar(value.l[i])

\* The methods of boto3's Attr by the number of operands they take, and its
\* attributes that are not methods.
AttrMethods0 == {<<"exists">>, <<"not", "_", "exists">>, <<"size">>}
AttrMethods1 ==
    {<<"eq">>, <<"ne">>, <<"lt">>, <<"lte">>, <<"gt">>, <<"gte">>, OP_begins_with,
     <<"is", "_", "in">>, <<"contains">>, <<"attribute", "_", "type">>}
AttrMethods2 == {OP_between}
AttrFields == {<<"name">>}

\* hasattr(attr, part)
HasAttr(part) == part \in AttrMethods0 \cup AttrMethods1 \cup AttrMethods2 \cup AttrFields

\* The while loop over parts: segments extend the attribute path until one
\* names an attribute of Attr, which becomes the operator and ends the loop.
RECURSIVE ParseParts(_, _)
ParseParts(path, parts) ==
    IF Len(parts) = 0 THEN [path |-> path, op |-> OP_eq, rest |-> <<>>]
    ELSE IF ~HasAttr(Head(parts)) THEN ParseParts(Append(path, Head(parts)), Tail(parts))
    ELSE [path |-> path, op |-> Head(parts), rest |-> Tail(parts)]

ParseAttr(token) == ParseParts(<<Head(Split(token))>>, Tail(Split(token)))

\* op(*operands) for a method that takes n operands
CallWith(path, op, n, operands) ==
    IF Len(operands) = n THEN Ok(Leaf(path, op, operands)) ELSE Raise("TypeError")

Arity(op) == IF op \in AttrMethods0 THEN 0 ELSE IF op \in AttrMethods1 THEN 1 ELSE 2

\* op(value), and on a TypeError op() for True and op(*value) for a list
AttrCondition(path, op, value) ==
    IF op \in AttrFields THEN Raise("TypeError")
    ELSE IF Arity(op) = 1 THEN Ok(Leaf(path, op, <<value>>))
    ELSE IF value = PyTrue THEN CallWith(path, op, Arity(op), <<>>)
    ELSE IF IsIterable(value)
         THEN CallWith(path, op, Arity(op), [i \in DOMAIN value.l |-> Element(value, i)])
    ELSE Raise("TypeError")

\* expression & attr_expression, a TypeError (expression is None) giving
\* attr_expression
AndOrFirst(expression, attr_expression) ==
    IF expression = None THEN Some(attr_expression)
    ELSE Some(And(expression[1], attr_expression))

\* The loop of Q over the mapping, popping its last entry first.
RECURSIVE QLoop(_, _)
QLoop(expression, mapping) ==
    IF Len(mapping) = 0 THEN [exc |-> "none", val |-> expression]
    ELSE LET entry == mapping[Len(mapping)]
             parsed == ParseAttr(entry.key)
             cond == AttrCondition(parsed.path, parsed.op, entry.value)
         IN  IF Len(parsed.rest) # 0 THEN [exc |-> "AssertionError", val |-> None]
             ELSE IF cond.exc # "none" THEN [exc |-> cond.exc, val |-> None]
             ELSE QLoop(AndOrFirst(expression, cond.val[1]),
                        SubSeq(mapping, 1, Len(mapping) - 1))

\* Q(**mapping): the expression (None for an empty mapping) or an exception.
Q(mapping) == QLoop(None, mapping)

(***************************************************************************)
(* The conditions argument of update: nothing, a mapping, an expression or *)
(* a list of expressions.                                                  *)
(***************************************************************************)
NoExpr == [k |-> "none"]
CondNone == [form |-> "none", m |-> <<>>, e |-> NoExpr, l |-> <<>>]
CondMapping(m) == [form |-> "mapping", m |-> m, e |-> NoExpr, l |-> <<>>]
CondExpr(e) == [form |-> "expr", m |-> <<>>, e |-> e, l |-> <<>>]
CondList(l) == [form |-> "list", m |-> <<>>, e |-> NoExpr, l |-> l]

\* (mutant) the fold keeps only the condition it saw last
FoldConditionsLast(acc, conds) ==
    IF Len(conds) = 0 THEN [exc |-> "none", val |-> acc]
    ELSE [exc |-> "none", val |-> conds[Len(conds)]]

\* for condition in conditions: condition_expression & condition, a
\* TypeError (condition_expression is None) giving condition.  The elements
\* are expressions or None.
RECURSIVE FoldConditions(_, _)
FoldConditions(acc, conds) ==
    IF Len(conds) = 0 THEN [exc |-> "none", val |-> acc]
    ELSE IF acc = None THEN FoldConditions(Head(conds), Tail(conds))
    ELSE IF Head(conds) = None
         THEN [exc |-> "DynamoDBOperationNotSupportedError", val |-> None]
    ELSE FoldConditions(Some(And(acc[1], Head(conds)[1])), Tail(conds))

\* conditions or {}, then a Mapping through Q, an Iterable folded, anything
\* else taken as the expression.
ConditionExpression(cond) ==
    IF cond.form = "none" THEN Q(<<>>)
    ELSE IF cond.form = "mapping" THEN Q(cond.m)
    ELSE IF cond.form = "list"
         THEN IF Len(cond.l) = 0 THEN Q(<<>>) ELSE FoldConditions(None, cond.l)
    ELSE [exc |-> "none", val |-> Some(cond.e)]

\* update_item_kwargs['Key'] = update_key, and the three assignments after it
UpdateItemKwargs(update_item_kwargs, req) ==
    DictSet(DictSet(DictSet(DictSet(update_item_kwargs,
        "Key", req.Key),
        "UpdateExpression", req.update_fields),
        "ExpressionAttributeNames", req.expr_names),
        "ExpressionAttributeValues", req.expr_vals)

\* if condition_expression: update_item_kwargs['ConditionExpression'] = ...
\* (a condition object is truthy, None is not)
AttachCondition(update_item_kwargs, condition_expression) ==
    IF condition_expression # None
    THEN DictSet(update_item_kwargs, "ConditionExpression", condition_expression[1])
    ELSE update_item_kwargs

\* update(update_item_kwargs, conditions, **kwargs) up to the wire call: the
\* exception raised before it, or the request for update_item.
TableUpdate(update_item_kwargs, cond, kw) ==
    LET req == UpdateRequest(kw)
        ce == ConditionExpression(cond)
    IN  IF req.exc # "none" THEN [exc |-> req.exc, wire |-> None]
        ELSE IF ce.exc # "none" THEN [exc |-> ce.exc, wire |-> None]
        ELSE [exc |-> "none",
              wire |-> Some(AttachCondition(UpdateItemKwargs(update_item_kwargs, req),
                                            ce.val))]

\* (mutant) a failed condition is reported as the unique put reports it
UpdateErrorAsPut(code) ==
    IF code = "ConditionalCheckFailedException" THEN "HashKeyExists" ELSE code

\* except ClientError: the exception update() leaves with for a transport
\* error of this code.
UpdateError(code) ==
    IF code = "ConditionalCheckFailedException" THEN "ConditionFailed" ELSE code

(***************************************************************************)
(* Items and the table behind table.put_item / table.update_item.  An item *)
(* is a dict from attribute to value; the table holds at most one item per *)
(* primary key (hash, range).                                              *)
(***************************************************************************)
HashVals == {1}
RangeVals == {1, 2}
PKs == HashVals \X RangeVals

\* Python's None as the value of an attribute.
NoneValue == 0

KeyItem(pk) == DictSet(DictSet(EmptyDict, hash_key, pk[1]), range_key, pk[2])
KeyOf(item) == <<item[hash_key], item[range_key]>>

\* remove_nones: the keys whose value is None are dropped (the values of the
\* model are scalars, which the recursion returns as they are).
remove_nones(in_dict) ==
    [key \in {k \in DOMAIN in_dict : in_dict[k] # NoneValue} |-> in_dict[key]]

\* A condition on an attribute path, on the stored item (None: no item).
EvalLeaf(e, item) ==
    LET present == Len(e.attr) = 1 /\ item # None /\ e.attr[1] \in DOMAIN item[1]
        v == item[1][e.attr[1]]
        scalar(i) == Len(e.args) >= i /\ e.args[i].t = "scalar"
    IN  CASE e.op = OP_eq -> present /\ scalar(1) /\ v = e.args[1].s
          [] e.op = <<"ne">> -> ~(present /\ scalar(1) /\ v = e.args[1].s)
          [] e.op = <<"lt">> -> present /\ scalar(1) /\ v < e.args[1].s
          [] e.op = <<"lte">> -> present /\ scalar(1) /\ v <= e.args[1].s
          [] e.op = <<"gt">> -> present /\ scalar(1) /\ v > e.args[1].s
          [] e.op = <<"gte">> -> present /\ scalar(1) /\ v >= e.args[1].s
          [] e.op = OP_between ->
                present /\ scalar(1) /\ scalar(2) /\ e.args[1].s <= v /\ v <= e.args[2].s
          [] e.op = <<"exists">> -> present
          [] e.op = <<"not", "_", "exists">> -> ~present
          [] e.op = <<"is", "_", "in">> ->
                present /\ Len(e.args) = 1 /\ e.args[1].t = "list"
                        /\ \E i \in DOMAIN e.args[1].l : e.args[1].l[i] = v
          [] OTHER -> FALSE

RECURSIVE Eval(_, _)
Eval(e, item) ==
    CASE e.k = "leaf" -> EvalLeaf(e, item)
      [] e.k = "and" -> Eval(e.l, item) /\ Eval(e.r, item)
      [] e.k = "or" -> Eval(e.l, item) \/ Eval(e.r, item)
      [] e.k = "not" -> ~Eval(e.e, item)

HasPrimaryKey(d) == {hash_key, range_key} \subseteq DOMAIN d

\* table.put_item(**request): the error code it fails with ("none" when it
\* succeeds) and the table afterwards.  fault is a failure of the transport
\* itself.
put_item(st, request, fault) ==
    IF fault # "none" THEN [code |-> fault, store |-> st]
    ELSE IF ~HasPrimaryKey(request["Item"])
         THEN [code |-> "ValidationException", store |-> st]
    ELSE IF /\ Has(request, "ConditionExpression")
            /\ ~Eval(request["ConditionExpression"], st[KeyOf(request["Item"])])
         THEN [code |-> "ConditionalCheckFailedException", store |-> st]
    ELSE [code |-> "none",
          store |-> [st EXCEPT ![KeyOf(request["Item"])] = Some(request["Item"])]]

\* The attribute and the value a SET clause names through the placeholders.
ClauseAttr(request, clause) == request["ExpressionAttributeNames"][clause.uk]
ClauseValue(request, clause) == request["ExpressionAttributeValues"][clause.uv]

\* A SET clause can be evaluated on the item: arithmetic needs the attribute,
\* list_append needs lists (the values of the model are numbers).
ClauseApplies(request, clause, item) ==
    /\ clause.fn \in {Some(<<"plus">>), Some(<<"minus">>)} =>
           ClauseAttr(request, clause) \in DOMAIN item
    /\ clause.fn # Some(<<"append">>)

ApplyClause(request, clause, item, acc) ==
    LET attr == ClauseAttr(request, clause)
        value == ClauseValue(request, clause)
    IN  IF clause.fn = None THEN DictSet(acc, attr, value)
        ELSE IF clause.fn = Some(<<"plus">>) THEN DictSet(acc, attr, item[attr] + value)
        ELSE IF clause.fn = Some(<<"minus">>) THEN DictSet(acc, attr, item[attr] - value)
        ELSE IF attr \in DOMAIN item THEN acc
        ELSE DictSet(acc, attr, value)

\* All the SET clauses, each reading the item as it was before the update.
RECURSIVE ApplyClauses(_, _, _, _)
ApplyClauses(request, clauses, item, acc) ==
    IF Len(clauses) = 0 THEN acc
    ELSE ApplyClauses(request, Tail(clauses), item,
                      ApplyClause(request, Head(clauses), item, acc))

\* The request is one the table accepts whatever the item: a full primary
\* key, a SET that is not empty, and no attribute assigned twice.
WellFormedUpdate(request) ==
    /\ HasPrimaryKey(request["Key"])
    /\ Len(request["UpdateExpression"]) > 0
    /\ \A i, j \in DOMAIN request["UpdateExpression"] :
           i # j => request["UpdateExpression"][i].uk # request["UpdateExpression"][j].uk

\* table.update_item(**request): the outcomes the table may answer with.  An
\* item that is not stored is created from the Key.  When the condition fails
\* and a clause cannot be evaluated either, the table may report either.
update_item(st, request, fault) ==
    LET pk == KeyOf(request["Key"])
        item == IF st[pk] = None THEN request["Key"] ELSE st[pk][1]
        clauses == request["UpdateExpression"]
        failed == /\ Has(request, "ConditionExpression")
                  /\ ~Eval(request["ConditionExpression"], st[pk])
        applies == \A i \in DOMAIN clauses : ClauseApplies(request, clauses[i], item)
        new == ApplyClauses(request, clauses, item, item)
        updated == {ClauseAttr(request, clauses[i]) : i \in DOMAIN clauses}
        answer(code) == [code |-> code, store |-> st, resp |-> EmptyDict]
    IN  IF fault # "none" THEN {answer(fault)}
        ELSE IF ~WellFormedUpdate(request) THEN {answer("ValidationException")}
        ELSE (IF failed THEN {answer("ConditionalCheckFailedException")} ELSE {})
             \cup (IF applies THEN {} ELSE {answer("ValidationException")})
             \cup (IF failed \/ ~applies THEN {}
                   ELSE {[code |-> "none",
                          store |-> [st EXCEPT ![pk] = Some(new)],
                          resp |-> IF Has(request, "ReturnValues")
                                   THEN DictSet(EmptyDict, "Attributes",
                                                [a \in updated |-> new[a]])
                                   ELSE EmptyDict]})

\* (mutant) the unique put sends no condition
PutUniqueKwargsPlain(kw) == kw

\* kwargs['ConditionExpression'] = 'attribute_not_exists(hash_key)'
PutUniqueKwargs(kw) ==
    DictSet(kw, "ConditionExpression", Leaf(<<hash_key>>, <<"not", "_", "exists">>, <<>>))

\* (mutant) the transport's error is passed on as it is
PutUniqueErrorRaw(code) == code

\* except ClientError in put_unique: the exception it leaves with for a
\* transport error of this code.
PutUniqueError(code) ==
    IF code = "ConditionalCheckFailedException" THEN "HashKeyExists" ELSE code

(***************************************************************************)
(* DynaModel._yield_items: the paginated executor.                         *)
(***************************************************************************)
Items == {"a", "b"}
Cursors == {1, 2}
NoneItem == "None"

\* The items of the store in the order the transport returns them: the n-th
\* item over all pages.  Equal items recur, so a lost, repeated or moved item
\* shows in the sequence yielded.
ItemAt(n) == IF n % 2 = 1 THEN "a" ELSE "b"

\* What the (mocked) transport may answer to request number n when it has
\* returned base items so far: a page of the next 0..MaxPageLen items, with
\* or without a continuation cursor, having scanned at least as many items
\* as it returns; the last page the model allows carries no cursor.
Responses(n, base) ==
    {[Items |-> [i \in 1..len |-> ItemAt(base + i)],
      LastEvaluatedKey |-> c,
      ScannedCount |-> len + x] :
        len \in 0..MaxPageLen,
        c \in (IF n >= MaxPages THEN {None} ELSE {None} \cup {Some(k) : k \in Cursors}),
        x \in 0..1}

\* method(*args, **kwargs)
Method(m, d, kw) == IF m = "query" THEN TableQuery(d, kw) ELSE TableScan(d)

\* for raw in resp['Items']: if raw is not None: yield ...
Yieldable(items) == SelectSeq(items, LAMBDA raw : raw # NoneItem)

\* (mutant) also stops at a page without items
NoFurtherPagesOrEmpty(r) == r.LastEvaluatedKey = None \/ r.Items = <<>>

\* 'LastEvaluatedKey' not in resp
NoFurtherPages(r) == r.LastEvaluatedKey = None

\* (mutant) reduces the Limit by the number of items returned
ReduceLimitByItems(d, r) ==
    IF d # None /\ Has(d[1], "Limit")
    THEN Some(DictSet(d[1], "Limit", d[1]["Limit"] - Len(r.Items)))
    ELSE d

\* kwargs[dynamo_kwargs_key]['Limit'] -= resp['ScannedCount'], a KeyError
\* (no dynamo kwargs, or no Limit in them) leaving everything as it was.
ReduceLimit(d, r) ==
    IF d # None /\ Has(d[1], "Limit")
    THEN Some(DictSet(d[1], "Limit", d[1]["Limit"] - r.ScannedCount))
    ELSE d

\* kwargs[dynamo_kwargs_key]['Limit'] <= 0
LimitReached(d) == d # None /\ Has(d[1], "Limit") /\ d[1]["Limit"] <= 0

\* (mutant) keeps an ExclusiveStartKey that is already there
SetStartKeyOnce(d, r) ==
    IF d # None
    THEN IF Has(d[1], "ExclusiveStartKey") THEN d
         ELSE Some(DictSet(d[1], "ExclusiveStartKey", r.LastEvaluatedKey[1]))
    ELSE Some("ExclusiveStartKey" :> r.LastEvaluatedKey[1])

\* kwargs[dynamo_kwargs_key]['ExclusiveStartKey'] = resp['LastEvaluatedKey'],
\* creating the dynamo kwargs on a KeyError.
SetStartKey(d, r) ==
    IF d # None
    THEN Some(DictSet(d[1], "ExclusiveStartKey", r.LastEvaluatedKey[1]))
    ELSE Some("ExclusiveStartKey" :> r.LastEvaluatedKey[1])

\* (mutant) the generator runs ahead of its consumer
ResumedEager == ~stopped \/ demand

\* The generator runs only between a next() of its consumer and the yield
\* (or the end) that answers it.
Resumed == demand /\ ~stopped

NoResp == [Items |-> <<>>, LastEvaluatedKey |-> None, ScannedCount |-> 0]

PageKwargs ==
    {<<[key |-> <<"foo">>, value |-> Scalar(1)]>>,
     <<[key |-> <<"foo">>, value |-> Scalar(1)],
       [key |-> <<"bar", "_", "_", "begins", "_", "with">>, value |-> Scalar(2)]>>,
     <<[key |-> <<"baz">>, value |-> Scalar(1)]>>}

PageDyn ==
    {None, Some(EmptyDict), Some("IndexName" :> "baz")}
    \cup {Some("Limit" :> n) : n \in 1..MaxLimit}

\* No call of DynamoTable3.query has been made.
NoResult == [exc |-> "none", wire |-> None, shared |-> None]

QueryIdle ==
    /\ q_kwargs = <<>>
    /\ q_dict = None
    /\ q_res = NoResult
    /\ q_calls = 0

\* No call of DynamoTable3.update has been made.
UpdateIdle ==
    /\ u_kwargs = <<>>
    /\ u_res = [exc |-> "none", wire |-> None]
    /\ u_calls = 0

\* The table is empty and nothing has been done on it.
StoreIdle ==
    /\ store = [pk \in PKs |-> None]
    /\ inst = None
    /\ s_op = "none" /\ s_item = None
    /\ s_exc = "none" /\ s_code = "none" /\ s_sent = 0
    /\ s_false = FALSE /\ s_pre = FALSE /\ s_post = FALSE

\* No call with filter arguments has been made.
FilterIdle ==
    /\ f_method = "none"
    /\ f_args = <<>>
    /\ f_kwargs = <<>>
    /\ f_dict = None
    /\ f_res = NoResult
    /\ f_calls = 0

\* No scan with a single keyword filter has been made.
AttrIdle ==
    /\ a_path = <<>>
    /\ a_op = None
    /\ a_value = Scalar(0)
    /\ a_token = <<>>
    /\ a_parsed = [path |-> <<>>, op |-> <<>>, rest |-> <<>>]
    /\ a_res = [exc |-> "none", val |-> None]
    /\ a_scan = NoResult
    /\ a_calls = 0

\* No call of get, get_batch or update with key maps has been made.
ReadIdle ==
    /\ r_op = "none"
    /\ r_keys = <<>>
    /\ r_consistent = FALSE
    /\ r_attrs = None
    /\ r_pc = "idle"
    /\ r_exc = "none"
    /\ r_kwargs = None
    /\ r_sent = <<>>
    /\ r_resps = <<>>
    /\ r_pending = <<>>
    /\ r_yielded = <<>>

\* No handle has been made and no thread has called for one.
Threads == 1..MaxThreads

HandleIdle ==
    /\ h_resource = None
    /\ h_table = None
    /\ h_call = [t \in Threads |-> "none"]
    /\ h_kw = [t \in Threads |-> 0]
    /\ h_pc = [t \in Threads |-> "idle"]
    /\ h_new = [t \in Threads |-> None]
    /\ h_res = [t \in Threads |-> None]
    /\ h_got = [t \in Threads |-> None]
    /\ h_made = 0
    /\ h_tmade = 0

Callers == {1, 2}

\* No caller has called put_unique.
UniqueIdle ==
    /\ c_pc = [t \in Callers |-> "idle"]
    /\ c_item = [t \in Callers |-> None]
    /\ c_code = [t \in Callers |-> "none"]
    /\ c_exc = [t \in Callers |-> "none"]

\* No table object has been declared and update_table was never called.
TableIdle ==
    /\ t_decl = <<>>
    /\ t_live = <<>>
    /\ t_cache = <<>>
    /\ t_pc = "idle"
    /\ t_todo = <<>>
    /\ t_ops = <<>>
    /\ t_ret = <<>>
    /\ t_exc = "none"
    /\ t_calls = 0
    /\ t_issued = 0
    /\ t_inpass = 0
    /\ t_busy = FALSE
    /\ t_prev = "none"

OthersIdle ==
    /\ UniqueIdle
    /\ FilterIdle
    /\ AttrIdle
    /\ ReadIdle
    /\ HandleIdle

\* There is no instance yet.
SaveIdle ==
    /\ i_self = <<>>
    /\ i_valid = <<>>
    /\ i_loaded = FALSE
    /\ i_op = "none"
    /\ i_exc = "none"
    /\ i_code = "none"
    /\ i_sent = <<>>
    /\ i_puts = 0
    /\ i_base = <<>>
    /\ i_want = <<>>
    /\ i_prior = <<>>

ExtraIdle ==
    /\ OthersIdle
    /\ TableIdle
    /\ SaveIdle

InitPage ==
    /\ QueryIdle
    /\ UpdateIdle
    /\ StoreIdle
    /\ ExtraIdle
    /\ method \in {"query", "scan"}
    /\ kwargs \in (IF method = "query" THEN PageKwargs ELSE {<<>>})
    /\ dyn \in PageDyn
    /\ gpc = "call"
    /\ demand = FALSE
    /\ stopped = FALSE
    /\ resp = NoResp
    /\ pending = <<>>
    /\ yielded = <<>>
    /\ wire = None
    /\ gexc = "none"
    /\ nreq = 0
    /\ served = <<>>
    /\ scanned = 0
    /\ nolast = 0
    /\ dyn0 = dyn
    /\ uniform = TRUE

\* The consumer asks for the next item.
ConsumerNext ==
    /\ ~demand /\ ~stopped /\ gpc \in {"call", "items"}
    /\ demand' = TRUE
    /\ UNCHANGED <<method, kwargs, dyn, gpc, stopped, resp, pending, yielded,
                   wire, gexc, nreq, served, scanned, nolast, dyn0, uniform>>
    /\ UNCHANGED <<qvars, uvars, svars, xvars>>

\* The consumer stops iterating and never asks again.
ConsumerStop ==
    /\ ~demand /\ ~stopped /\ gpc \in {"call", "items"}
    /\ stopped' = TRUE
    /\ UNCHANGED <<method, kwargs, dyn, gpc, demand, resp, pending, yielded,
                   wire, gexc, nreq, served, scanned, nolast, dyn0, uniform>>
    /\ UNCHANGED <<qvars, uvars, svars, xvars>>

\* resp = method(*args, **kwargs): the request is built and sent, and the
\* transport answers; or the builder raises and the generator ends.
YieldItemsCall ==
    /\ Resumed /\ gpc = "call" /\ nreq <= MaxPages
    /\ LET call == Method(method, dyn, kwargs)
       IN  IF call.exc # "none"
           THEN /\ gpc' = "raised"
                /\ gexc' = call.exc
                /\ demand' = FALSE
                /\ dyn' = call.shared
                /\ UNCHANGED <<resp, pending, wire, nreq, served, scanned, nolast, uniform>>
           ELSE \E r \in Responses(nreq + 1, Len(served)) :
                /\ gpc' = "items"
                /\ dyn' = call.shared
                /\ wire' = call.wire
                /\ nreq' = nreq + 1
                /\ resp' = r
                /\ pending' = Yieldable(r.Items)
                /\ served' = served \o r.Items
                /\ scanned' = scanned + r.ScannedCount
                /\ nolast' = nolast + (IF r.LastEvaluatedKey = None THEN 1 ELSE 0)
                /\ uniform' = (uniform /\ Len(r.Items) = 2 /\ r.ScannedCount = 2
                                       /\ r.LastEvaluatedKey # None)
                /\ UNCHANGED <<gexc, demand>>
    /\ UNCHANGED <<method, kwargs, stopped, yielded, dyn0>>
    /\ UNCHANGED <<qvars, uvars, svars, xvars>>

\* yield cls.new_from_raw(raw): the next item of the page goes to the consumer.
YieldItemsYield ==
    /\ Resumed /\ gpc = "items" /\ pending # <<>>
    /\ yielded' = Append(yielded, Head(pending))
    /\ pending' = Tail(pending)
    /\ demand' = FALSE
    /\ UNCHANGED <<method, kwargs, dyn, gpc, stopped, resp, wire, gexc, nreq,
                   served, scanned, nolast, dyn0, uniform>>
    /\ UNCHANGED <<qvars, uvars, svars, xvars>>

\* The page is exhausted: stop without a cursor, reduce the Limit and stop
\* when it is used up, else put the cursor into the next request.
YieldItemsPageEnd ==
    /\ Resumed /\ gpc = "items" /\ pending = <<>>
    /\ IF NoFurtherPages(resp)
       THEN /\ gpc' = "done"
            /\ demand' = FALSE
            /\ UNCHANGED dyn
       ELSE IF LimitReached(ReduceLimit(dyn, resp))
       THEN /\ gpc' = "done"
            /\ demand' = FALSE
            /\ dyn' = ReduceLimit(dyn, resp)
       ELSE /\ gpc' = "call"
            /\ dyn' = SetStartKey(ReduceLimit(dyn, resp), resp)
            /\ UNCHANGED demand
    /\ UNCHANGED <<method, kwargs, stopped, resp, pending, yielded, wire, gexc,
                   nreq, served, scanned, nolast, dyn0, uniform>>
    /\ UNCHANGED <<qvars, uvars, svars, xvars>>

NextPage ==
    \/ ConsumerNext
    \/ ConsumerStop
    \/ YieldItemsCall
    \/ YieldItemsYield
    \/ YieldItemsPageEnd

Spec == InitPage /\ [][NextPage]_vars

\* A step of the generator, or the consumer asking for one more item: at
\* most one of these is enabled in any state.
Progress == ConsumerNext \/ YieldItemsCall \/ YieldItemsYield \/ YieldItemsPageEnd

(***************************************************************************)
(* Claims about the paginated executor.                                    *)
(***************************************************************************)
\* The Limit the caller passed, None without one.
CallerLimit == IF dyn0 # None /\ Has(dyn0[1], "Limit") THEN Some(dyn0[1]["Limit"]) ELSE None

Terminated == gpc \in {"done", "raised"} \/ stopped

C1Safety ==
    CallerLimit = None =>
        /\ yielded \o pending = served
        /\ nolast <= 1
        /\ gpc = "done" => /\ yielded = served
                           /\ nolast = 1
                           /\ NoFurtherPages(resp)

\* A measure of the work left: the pages the transport can still return,
\* then the items of the page not yet yielded, then the steps within one
\* next() of the consumer.
Measure ==
    IF gpc \in {"done", "raised"} THEN 0
    ELSE 1 + (MaxPages + 1 - nreq) * (2 * MaxPageLen + 4)
           + 2 * Len(pending)
           + (IF gpc = "items" THEN 2 ELSE 0)
           + (IF demand THEN 0 ELSE 1)

\* C1: without a caller Limit, whatever pages the transport returns, the
\* executor requests pages up to and including the first one without a
\* LastEvaluatedKey and no page after it, hands the consumer the items of all
\* pages in page order and in their order within the page, each once, and
\* then ends: until it has ended a step is always possible, and every step
\* of the generator or next() of the consumer brings the end nearer.
C1_Pagination ==
    /\ [](CallerLimit = None => (C1Safety /\ (~Terminated => ENABLED Progress)))
    /\ [][(CallerLimit = None /\ stopped' = stopped) =>
              (Measure' < Measure /\ Measure' >= 0)]_vars

C1_Witness ==
    /\ gpc = "done" /\ CallerLimit = None /\ method = "query"
    /\ nreq = MaxPages /\ Len(yielded) >= 3

\* C2: with a caller Limit L every request carries L less the ScannedCount of
\* all earlier pages, a request after the first is sent only while that
\* remainder is positive, and the executor ends only on a page without cursor
\* or with the remainder used up; with pages of 2 items and Limit 3 it makes
\* at most 2 requests and yields at least 3 items.
C2_Limit ==
    CallerLimit # None =>
        /\ wire # None => wire[1]["Limit"] = CallerLimit[1] - (scanned - resp.ScannedCount)
        /\ nreq >= 2 => wire[1]["Limit"] > 0
        /\ (gpc = "call" /\ nreq >= 1) => /\ CallerLimit[1] - scanned > 0
                                         /\ dyn[1]["Limit"] = CallerLimit[1] - scanned
        /\ gpc = "done" => (NoFurtherPages(resp) \/ CallerLimit[1] - scanned <= 0)
        /\ (CallerLimit = Some(3) /\ uniform) =>
               /\ nreq <= 2
               /\ gpc = "done" => Len(yielded) >= 3

C2_Witness ==
    /\ CallerLimit = Some(3) /\ uniform /\ gpc = "done"
    /\ nreq = 2 /\ Len(yielded) = 4 /\ wire[1]["Limit"] = 1

\* C3: every request after the first carries as ExclusiveStartKey the
\* LastEvaluatedKey of the response just before it.
C3_Cursor ==
    [][(nreq' = nreq + 1 /\ nreq >= 1) =>
           /\ Has(wire'[1], "ExclusiveStartKey")
           /\ wire'[1]["ExclusiveStartKey"] = resp.LastEvaluatedKey[1]]_vars

C3_Witness ==
    /\ dyn0 = None /\ nreq = 3 /\ method = "query"
    /\ wire[1]["ExclusiveStartKey"] = 2

\* C4: a request is sent only while the consumer waits for an item it has
\* asked for and after it was handed every item of the earlier pages; once
\* the consumer has stopped, no request is sent.
C4_Lazy ==
    [][/\ nreq' > nreq => (demand /\ ~stopped /\ yielded = served)
       /\ stopped => nreq' = nreq]_vars

C4_Witness ==
    /\ stopped /\ nreq = 1 /\ Len(yielded) = 1 /\ Len(pending) = 1
    /\ ~NoFurtherPages(resp)

(***************************************************************************)
(* One call of DynamoTable3.query on its own, over a wider set of key      *)
(* kwargs than the executor above is run with.                             *)
(***************************************************************************)
\* No generator was made.
PageIdle ==
    /\ method = "query" /\ kwargs = <<>> /\ dyn = None /\ dyn0 = None
    /\ gpc = "idle" /\ demand = FALSE /\ stopped = FALSE
    /\ resp = NoResp /\ pending = <<>> /\ yielded = <<>> /\ wire = None
    /\ gexc = "none" /\ nreq = 0 /\ served = <<>> /\ scanned = 0 /\ nolast = 0
    /\ uniform = TRUE

\* attribute, or attribute__operator
Token(attr, op) == IF op = <<>> THEN attr ELSE Join(<<attr, op>>)

QueryTokens ==
    {Token(a, o) : a \in {<<"foo">>, <<"bar">>},
                   o \in {<<>>, OP_begins_with, OP_between}}
    \cup {Token(<<"baz">>, <<>>), Token(<<"bar">>, <<"ne">>)}

QueryValues == {Scalar(1), List(<<1, 2>>)}

QueryInputs ==
    {kw \in UNION {[1..n -> [key : QueryTokens, value : QueryValues]] : n \in 0..MaxTerms} :
        \A i, j \in DOMAIN kw : i # j => kw[i].key # kw[j].key}

QueryDyn == {None, Some(EmptyDict), Some("IndexName" :> "baz"), Some("Limit" :> 1)}

InitQuery ==
    /\ PageIdle
    /\ QueryIdle
    /\ UpdateIdle
    /\ StoreIdle
    /\ ExtraIdle

\* Table.query(query_kwargs=qk, **kw)
QueryCall ==
    /\ q_calls = 0
    /\ \E kw \in QueryInputs, qk \in QueryDyn :
          /\ q_kwargs' = kw
          /\ q_dict' = qk
          /\ q_res' = TableQuery(qk, kw)
    /\ q_calls' = q_calls + 1
    /\ UNCHANGED <<pvars, uvars, svars, xvars>>

NextQuery == QueryCall

SpecQuery == InitQuery /\ [][NextQuery]_vars

(***************************************************************************)
(* Claims about the key expression builder.                                *)
(***************************************************************************)
\* The hash key and the range key of the key schema a call targets.
TargetHash(qk) ==
    IF qk # None /\ Has(qk[1], "IndexName")
    THEN {ix.hash_key : ix \in {i \in indexes : i.name = qk[1]["IndexName"]}}
    ELSE {hash_key}

TargetRange(qk) ==
    IF qk # None /\ Has(qk[1], "IndexName")
    THEN UNION {{ix.range_key[i] : i \in DOMAIN ix.range_key} :
                ix \in {i \in indexes : i.name = qk[1]["IndexName"]}}
    ELSE {range_key}

\* The terms of an expression that is a leaf or a conjunction of leaves.
RECURSIVE Terms(_)
Terms(e) == IF e.k = "and" THEN Terms(e.l) \cup Terms(e.r) ELSE {e}

\* Term i of the call is on the hash key with one of the operators ops.
OnHash(i, ops) ==
    /\ QueryKey(q_kwargs[i].key) \in TargetHash(q_dict)
    /\ QueryOp(q_kwargs[i].key) \in ops

OnRange(i, ops) ==
    /\ QueryKey(q_kwargs[i].key) \in TargetRange(q_dict)
    /\ QueryOp(q_kwargs[i].key) \in ops

\* Every term of the call is one a key expression can be built from.
AllTermsBuild ==
    /\ Len(q_kwargs) \in {1, 2}
    /\ \A i \in DOMAIN q_kwargs :
          /\ QueryKey(q_kwargs[i].key) \in TargetHash(q_dict) \cup TargetRange(q_dict)
          /\ QueryOp(q_kwargs[i].key) \in KeyMethods1

\* C9 as claimed: a call with a between or begins_with term on the hash key
\* raises and sends no wire request.
C9_Claimed ==
    (q_calls = 1 /\ \E i \in DOMAIN q_kwargs : OnHash(i, {OP_between, OP_begins_with}))
        => (q_res.exc # "none" /\ q_res.wire = None)

\* C9 amended: a between term on the hash key makes the call raise without
\* a wire request, but a begins_with term on the hash key is not rejected:
\* when every term of the call is on a key of the targeted schema with a
\* one-operand operator, the request is sent with that begins_with term in its
\* KeyConditionExpression.
C9_HashKeyOperators ==
    q_calls = 1 =>
        /\ (\E i \in DOMAIN q_kwargs : OnHash(i, {OP_between}))
               => (q_res.exc # "none" /\ q_res.wire = None)
        /\ \A i \in DOMAIN q_kwargs :
               (OnHash(i, {OP_begins_with}) /\ AllTermsBuild)
                   => /\ q_res.exc = "none"
                      /\ q_res.wire # None
                      /\ Leaf(QueryKey(q_kwargs[i].key), OP_begins_with, <<q_kwargs[i].value>>)
                             \in Terms(q_res.wire[1]["KeyConditionExpression"])

C9_Witness ==
    /\ q_calls = 1 /\ Len(q_kwargs) = 1 /\ OnHash(1, {OP_begins_with})
    /\ q_res.wire # None

\* C10 as claimed: a call with the hash key and, on the range key, begins_with
\* with a scalar or between with a list of two, sends a wire request whose
\* KeyConditionExpression is the conjunction of the two terms.
C10_Claimed ==
    \A i, j \in DOMAIN q_kwargs :
        (/\ q_calls = 1 /\ Len(q_kwargs) = 2 /\ i # j
         /\ OnHash(i, {OP_eq}) /\ q_kwargs[i].value.t = "scalar"
         /\ \/ OnRange(j, {OP_begins_with}) /\ q_kwargs[j].value.t = "scalar"
            \/ OnRange(j, {OP_between}) /\ q_kwargs[j].value.t = "list"
                                       /\ Len(q_kwargs[j].value.l) = 2)
        => /\ q_res.exc = "none"
           /\ q_res.wire # None
           /\ Cardinality(Terms(q_res.wire[1]["KeyConditionExpression"])) = 2
           /\ \E t \in Terms(q_res.wire[1]["KeyConditionExpression"]) :
                 t.attr = QueryKey(q_kwargs[i].key) /\ t.op = OP_eq
           /\ \E t \in Terms(q_res.wire[1]["KeyConditionExpression"]) :
                 t.attr = QueryKey(q_kwargs[j].key) /\ t.op = QueryOp(q_kwargs[j].key)

(***************************************************************************)
(* One call of DynamoTable3.update on its own, over a wide set of mutation *)
(* kwargs; the transport answers the request or fails it.                  *)
(***************************************************************************)
UpdateTokens ==
    {<<"foo">>, <<"bar">>, <<"count">>, <<"nope">>,
     Token(<<"bar">>, <<"plus">>), Token(<<"count">>, <<"plus">>),
     Token(<<"count">>, <<"minus">>), Token(<<"baz">>, <<"append">>),
     Token(<<"baz">>, <<"if", "_", "not", "_", "exists">>),
     Token(<<"count">>, <<"bogus">>)}

UpdateValues == {1, 2}

UpdateInputs ==
    {kw \in UNION {[1..n -> [key : UpdateTokens, value : UpdateValues]] : n \in 0..MaxMutations} :
        \A i, j \in DOMAIN kw : i # j => kw[i].key # kw[j].key}

\* The error codes a transport failure may carry.
TransportErrors == {"ConditionalCheckFailedException", "ProvisionedThroughputExceededException"}

InitUpdate ==
    /\ PageIdle
    /\ QueryIdle
    /\ UpdateIdle
    /\ StoreIdle
    /\ ExtraIdle

\* Table.update(**kw)
UpdateCall ==
    /\ u_calls = 0
    /\ \E kw \in UpdateInputs, outcome \in {"none"} \cup TransportErrors :
          LET call == TableUpdate(EmptyDict, CondNone, kw)
          IN  /\ u_kwargs' = kw
              /\ u_res' = IF call.exc # "none" THEN call
                          ELSE [exc |-> UpdateError(outcome), wire |-> call.wire]
    /\ u_calls' = u_calls + 1
    /\ UNCHANGED <<pvars, qvars, svars, xvars>>

NextUpdate == UpdateCall

SpecUpdate == InitUpdate /\ [][NextUpdate]_vars

(***************************************************************************)
(* Claims about the update expression builder.                             *)
(***************************************************************************)
KeyAttributes == {hash_key, range_key}

\* C5: in the request of an update, no SET clause, name placeholder or value
\* placeholder is of the hash key or the range key; the Key holds exactly the
\* key attributes among the mutations, each with a value given for it; and
\* every other mutation has its SET clause.
C5_KeysOnlyInKey ==
    (u_calls = 1 /\ u_res.wire # None) =>
        LET req == u_res.wire[1]
        IN  /\ \A i \in DOMAIN req["UpdateExpression"] :
                   /\ req["UpdateExpression"][i].uk \in DOMAIN req["ExpressionAttributeNames"]
                   /\ req["ExpressionAttributeNames"][req["UpdateExpression"][i].uk]
                          \notin KeyAttributes
            /\ \A ph \in DOMAIN req["ExpressionAttributeNames"] :
                   req["ExpressionAttributeNames"][ph] \notin KeyAttributes
            /\ \A a \in KeyAttributes :
                   ValuePlaceholder(a) \notin DOMAIN req["ExpressionAttributeValues"]
            /\ DOMAIN req["Key"] =
                   {UpdateKey(u_kwargs[i].key) : i \in DOMAIN u_kwargs} \cap KeyAttributes
            /\ \A a \in DOMAIN req["Key"] :
                   \E i \in DOMAIN u_kwargs :
                       UpdateKey(u_kwargs[i].key) = a /\ u_kwargs[i].value = req["Key"][a]
            /\ \A i \in DOMAIN u_kwargs :
                   UpdateKey(u_kwargs[i].key) \notin KeyAttributes =>
                       \E j \in DOMAIN req["UpdateExpression"] :
                           req["UpdateExpression"][j] =
                               SetClause(UpdateFunction(u_kwargs[i].key),
                                         UpdateKey(u_kwargs[i].key))

C5_Witness ==
    /\ u_calls = 1 /\ u_res.wire # None /\ Len(u_kwargs) = 3
    /\ u_kwargs[1].key = Token(<<"count">>, <<"plus">>)
    /\ u_kwargs[2].key = Token(<<"bar">>, <<"plus">>)
    /\ u_kwargs[3].key = <<"foo">>
    /\ DOMAIN u_res.wire[1]["Key"] = KeyAttributes
    /\ Len(u_res.wire[1]["UpdateExpression"]) = 1

(***************************************************************************)
(* The operations on a table: put, put_unique, update_item (the table's    *)
(* update), the instance's update, and get, each one request to the table. *)
(***************************************************************************)
COUNT == <<"count">>

\* The items a caller puts: a full primary key, and count absent, None or
\* a number.
PutItems ==
    {KeyItem(pk) : pk \in PKs}
    \cup {DictSet(KeyItem(pk), COUNT, v) : pk \in PKs, v \in {NoneValue} \cup (1..MaxValue)}

\* The mutation kwargs of an update, keys aside: none, count set to a
\* value, count increased by one.
Mutations ==
    {<<>>, <<[key |-> Token(COUNT, <<"plus">>), value |-> 1]>>}
    \cup {<<[key |-> COUNT, value |-> v]>> : v \in 1..MaxValue}

KeyKwargs(pk) == <<[key |-> hash_key, value |-> pk[1]], [key |-> range_key, value |-> pk[2]]>>

\* The conditions of an update.  Entries of a mapping: count is 1, count is
\* at least 1, count is absent; and the expressions Q gives for them.
EntryEq == [key |-> COUNT, value |-> Scalar(1)]
EntryGte == [key |-> Token(COUNT, <<"gte">>), value |-> Scalar(1)]
EntryNotExists == [key |-> Token(COUNT, <<"not", "_", "exists">>), value |-> PyTrue]

QEq == Q(<<EntryEq>>).val[1]
QGte == Q(<<EntryGte>>).val[1]
QNotExists == Q(<<EntryNotExists>>).val[1]

CondMappings == {<<EntryEq>>, <<EntryNotExists>>, <<EntryEq, EntryGte>>, <<EntryGte, EntryEq>>}
CondExprs == {Not(QEq), Or(QEq, QNotExists)}
CondLists == {<<>>, <<Some(QGte), Some(Not(QEq))>>, <<Some(Not(QEq)), Some(QGte)>>}

Conditions ==
    {CondNone}
    \cup {CondMapping(m) : m \in CondMappings}
    \cup {CondExpr(e) : e \in CondExprs}
    \cup {CondList(l) : l \in CondLists}

\* What the caller's conditions say of the stored item: every entry of a
\* mapping and every expression of a list holds.
Holds(cond, item) ==
    /\ cond.form = "mapping" =>
           \A i \in DOMAIN cond.m : Eval(Q(<<cond.m[i]>>).val[1], item)
    /\ cond.form = "expr" => Eval(cond.e, item)
    /\ cond.form = "list" =>
           \A i \in DOMAIN cond.l : cond.l[i] # None => Eval(cond.l[i][1], item)

\* A failure of the transport itself, or none.
Faults == {"none", "ProvisionedThroughputExceededException"}

\* Every attribute of every stored item is within the model's values.
InRange(st) ==
    \A pk \in PKs : st[pk] # None =>
        \A a \in DOMAIN st[pk][1] : st[pk][1][a] \in 1..MaxValue

InitStore ==
    /\ PageIdle
    /\ QueryIdle
    /\ UpdateIdle
    /\ StoreIdle
    /\ ExtraIdle

\* Table.put(item)
Put ==
    \E item \in PutItems, fault \in Faults :
        /\ s_op' = "put" /\ s_item' = Some(item)
        /\ s_false' = FALSE /\ s_pre' = FALSE /\ s_post' = FALSE
        /\ \E out \in {put_item(store, DictSet(EmptyDict, "Item", remove_nones(item)), fault)} :
              /\ store' = out.store
              /\ s_exc' = out.code /\ s_code' = out.code /\ s_sent' = 1
        /\ UNCHANGED <<inst, pvars, qvars, uvars, xvars>>

\* Table.put_unique(item)
PutUnique ==
    \E item \in PutItems, fault \in Faults :
        /\ s_op' = "put_unique" /\ s_item' = Some(item)
        /\ s_false' = FALSE /\ s_pre' = FALSE /\ s_post' = FALSE
        /\ \E out \in {put_item(store,
                                DictSet(PutUniqueKwargs(EmptyDict), "Item", remove_nones(item)),
                                fault)} :
              /\ store' = out.store
              /\ s_exc' = PutUniqueError(out.code) /\ s_code' = out.code /\ s_sent' = 1
        /\ UNCHANGED <<inst, pvars, qvars, uvars, xvars>>

\* Model.update_item(conditions=cond, **kw): the kwargs are valid for the
\* schema, so dynamorm_validate and _normalize_keys_in_kwargs pass them on as
\* they are; then Table.update and its request.
UpdateItem ==
    \E pk \in PKs, kw \in Mutations, cond \in Conditions, fault \in Faults :
        /\ s_op' = "update_item" /\ s_item' = None
        /\ s_false' = ~Holds(cond, store[pk])
        /\ s_pre' = FALSE /\ s_post' = FALSE
        /\ \E call \in {TableUpdate(EmptyDict, cond, KeyKwargs(pk) \o kw)} :
              IF call.exc # "none"
              THEN /\ s_exc' = call.exc /\ s_code' = "none" /\ s_sent' = 0
                   /\ UNCHANGED store
              ELSE \E out \in update_item(store, call.wire[1], fault) :
                      /\ InRange(out.store)
                      /\ store' = out.store
                      /\ s_exc' = UpdateError(out.code) /\ s_code' = out.code
                      /\ s_sent' = 1
        /\ UNCHANGED <<inst, pvars, qvars, uvars, xvars>>

\* self._add_hash_key_values(kwargs)
AddHashKeyValues(instance, kw) == kw \o KeyKwargs(KeyOf(instance))

\* update_item_kwargs['ReturnValues'] = 'UPDATED_NEW'
ReturnUpdatedNew == DictSet(EmptyDict, "ReturnValues", "UPDATED_NEW")

\* for key, val in resp['Attributes']: setattr(self, key, val)
SetAttrs(instance, attributes) == attributes @@ instance

\* instance.update(conditions=cond, **kw): pre_update is sent, then
\* update_item is called; the local attributes are set and post_update is
\* sent once it has returned.
InstanceUpdate ==
    /\ inst # None
    /\ \E kw \in Mutations, cond \in Conditions, fault \in Faults :
          /\ s_op' = "update" /\ s_item' = None
          /\ s_false' = ~Holds(cond, store[KeyOf(inst[1])])
          /\ s_pre' = TRUE
          /\ \E call \in {TableUpdate(ReturnUpdatedNew, cond, AddHashKeyValues(inst[1], kw))} :
                IF call.exc # "none"
                THEN /\ s_exc' = call.exc /\ s_code' = "none" /\ s_sent' = 0
                     /\ s_post' = FALSE
                     /\ UNCHANGED <<store, inst>>
                ELSE \E out \in update_item(store, call.wire[1], fault) :
                        /\ InRange(out.store)
                        /\ store' = out.store
                        /\ s_exc' = UpdateError(out.code) /\ s_code' = out.code
                        /\ s_sent' = 1
                        /\ s_post' = (out.code = "none")
                        /\ inst' = IF out.code = "none"
                                   THEN Some(SetAttrs(inst[1], out.resp["Attributes"]))
                                   ELSE inst
    /\ UNCHANGED <<pvars, qvars, uvars, xvars>>

\* Model.get(foo=.., bar=..): the instance made of the stored item, or None.
Get ==
    \E pk \in PKs :
        /\ inst' = store[pk]
        /\ s_op' = "get" /\ s_item' = None
        /\ s_exc' = "none" /\ s_code' = "none" /\ s_sent' = 1
        /\ s_false' = FALSE /\ s_pre' = FALSE /\ s_post' = FALSE
        /\ UNCHANGED <<store, pvars, qvars, uvars, xvars>>

NextStore ==
    \/ Put
    \/ PutUnique
    \/ UpdateItem
    \/ InstanceUpdate
    \/ Get

SpecStore == InitStore /\ [][NextStore]_vars

(***************************************************************************)
(* Claims about conditional updates, unique puts and error translation.    *)
(***************************************************************************)
IsUpdate(op) == op \in {"update_item", "update"}

\* The table answered the request: it was sent and the transport did not
\* fail it for a reason of its own.
Answered(sent, code) == sent = 1 /\ code \in {"none", "ConditionalCheckFailedException"}

\* C6: an update whose conditions (a mapping, an expression or a list of
\* expressions) are false of the stored item, and whose request the table
\* answers, raises ConditionFailed and leaves the table as it was; the
\* instance method leaves the instance's attributes as they were and does
\* not send post_update.
C6_ConditionalUpdate ==
    [][(IsUpdate(s_op') /\ s_false' /\ Answered(s_sent', s_code')) =>
          /\ s_exc' = "ConditionFailed"
          /\ store' = store
          /\ inst' = inst
          /\ ~s_post']_vars

\* An update of an instance whose conditions are false of the stored item has
\* raised ConditionFailed after pre_update was sent; the instance holds a
\* count and is still what the table stores.
C6_Witness ==
    /\ s_op = "update" /\ s_false /\ s_exc = "ConditionFailed" /\ s_pre /\ ~s_post
    /\ inst # None /\ COUNT \in DOMAIN inst[1]
    /\ store[KeyOf(inst[1])] = inst

\* The item of the last put or put_unique, its primary key, and what is
\* stored for an item: its attributes that are not None, and no other.
PutKeyOf(item) == KeyOf(item[1])
StoredAs(stored, item) ==
    /\ stored # None
    /\ \A a \in DOMAIN stored[1] : a \in DOMAIN item[1] /\ stored[1][a] = item[1][a]
    /\ \A a \in DOMAIN item[1] : item[1][a] # NoneValue => a \in DOMAIN stored[1]
OthersKept(st, st2, pk) == \A k \in PKs \ {pk} : st2[k] = st[k]
Size(st) == Cardinality({k \in PKs : st[k] # None})

\* C7: whatever was done on the table before, a put_unique the table answers
\* raises HashKeyExists and leaves the table as it was when an item is stored
\* under the item's primary key (hash and range), and stores the item when
\* none is; a put the table answers on a stored key succeeds, replaces that
\* item, and changes neither the number of items nor an item under another
\* key.
C7_PutUnique ==
    [][/\ (s_op' = "put_unique" /\ Answered(s_sent', s_code')
              /\ store[PutKeyOf(s_item')] # None) =>
           (s_exc' = "HashKeyExists" /\ store' = store)
       /\ (s_op' = "put_unique" /\ Answered(s_sent', s_code')
              /\ store[PutKeyOf(s_item')] = None) =>
           /\ s_exc' = "none"
           /\ StoredAs(store'[PutKeyOf(s_item')], s_item')
           /\ OthersKept(store, store', PutKeyOf(s_item'))
       /\ (s_op' = "put" /\ Answered(s_sent', s_code')
              /\ store[PutKeyOf(s_item')] # None) =>
           /\ s_exc' = "none"
           /\ StoredAs(store'[PutKeyOf(s_item')], s_item')
           /\ OthersKept(store, store', PutKeyOf(s_item'))
           /\ Size(store') = Size(store)]_vars

\* A put_unique has raised HashKeyExists for a key under which another item
\* than its own is stored, while the other range key of the same hash key
\* holds no item.
C7_Witness ==
    /\ s_op = "put_unique" /\ s_exc = "HashKeyExists"
    /\ store[PutKeyOf(s_item)] # None
    /\ ~StoredAs(store[PutKeyOf(s_item)], s_item)
    /\ Size(store) = 1

\* C8: a ConditionalCheckFailedException of the transport leaves put_unique
\* as HashKeyExists and update as ConditionFailed, never the other way; an
\* error of any other code leaves both with that code; and neither sends
\* more than one request.
C8_ErrorTranslation ==
    /\ s_op = "put_unique" =>
          /\ s_code = "ConditionalCheckFailedException" => s_exc = "HashKeyExists"
          /\ s_code # "ConditionalCheckFailedException" => s_exc = s_code
          /\ s_exc # "ConditionFailed"
          /\ s_sent = 1
    /\ (IsUpdate(s_op) /\ s_sent > 0) =>
          /\ s_code = "ConditionalCheckFailedException" => s_exc = "ConditionFailed"
          /\ s_code # "ConditionalCheckFailedException" => s_exc = s_code
          /\ s_exc # "HashKeyExists"
          /\ s_sent = 1

\* An update has been refused by the table and raised ConditionFailed.
C8_Witness ==
    /\ s_op = "update_item" /\ s_sent = 1
    /\ s_code = "ConditionalCheckFailedException" /\ s_exc = "ConditionFailed"

DynaModelQuery(args, qk, kw) ==
    IF Len(args) # 0
    THEN [exc |-> "TypeError", wire |-> None, shared |-> qk]
    ELSE TableQuery(qk, kw)

\* (mutant) the positional expressions are OR-combined
RECURSIVE ScanFoldOr(_, _)
ScanFoldOr(filter_expression, args) ==
    IF Len(args) = 0 THEN [exc |-> "none", val |-> filter_expression]
    ELSE IF filter_expression = None THEN ScanFoldOr(Head(args), Tail(args))
    ELSE IF Head(args) = None
         THEN [exc |-> "DynamoDBOperationNotSupportedError", val |-> None]
    ELSE ScanFoldOr(Some(Or(filter_expression[1], Head(args)[1])), Tail(args))

\* for arg in args: filter_expression & arg, a TypeError (filter_expression
\* is None) giving arg.  The elements are expressions or None.
RECURSIVE ScanFold(_, _)
ScanFold(filter_expression, args) ==
    IF Len(args) = 0 THEN [exc |-> "none", val |-> filter_expression]
    ELSE IF filter_expression = None THEN ScanFold(Head(args), Tail(args))
    ELSE IF Head(args) = None
         THEN [exc |-> "DynamoDBOperationNotSupportedError", val |-> None]
    ELSE ScanFold(Some(And(filter_expression[1], Head(args)[1])), Tail(args))

\* DynamoTable3.scan(*args, scan_kwargs=sk, **kw): scan_kwargs or {} (an
\* empty dict of the caller is replaced by a new one), the keyword filters
\* through Q, the positional ones folded in, FilterExpression set when the
\* result is not None, then the request.
TableScanFilter(args, sk, kw) ==
    LET scan_kwargs == IF sk = None THEN EmptyDict ELSE sk[1]
        q == Q(kw)
        f == IF q.exc = "none" THEN ScanFold(q.val, args) ELSE q
        sent == IF f.val = None THEN scan_kwargs
                ELSE DictSet(scan_kwargs, "FilterExpression", f.val[1])
    IN  IF f.exc # "none"
        THEN [exc |-> f.exc, wire |-> None, shared |-> sk]
        ELSE [exc |-> "none", wire |-> Some(sent),
              shared |-> IF scan_kwargs = EmptyDict THEN sk ELSE Some(sent)]

\* The keyword arguments of the calls: terms on the keys foo and bar and
\* filters on the attribute count, each with the value 1.
FilterTokens ==
    {<<"foo">>, <<"bar">>, COUNT, Token(COUNT, <<"gt">>), Token(COUNT, <<"lt">>)}

FilterEntry(token) == [key |-> token, value |-> Scalar(1)]

FilterInputs ==
    UNION {{[i \in 1..n |-> FilterEntry(f[i])] :
                f \in {g \in [1..n -> FilterTokens] :
                          \A i, j \in 1..n : i # j => g[i] # g[j]}} :
           n \in 0..MaxFilters}

\* The positional arguments of the calls: Q expressions, or None (what Q()
\* returns).
QGt == Q(<<FilterEntry(Token(COUNT, <<"gt">>))>>).val[1]
QLt == Q(<<FilterEntry(Token(COUNT, <<"lt">>))>>).val[1]

FilterExprs == {None, Some(Or(QGt, QLt)), Some(Not(QEq))}

FilterArgs == UNION {[1..n -> FilterExprs] : n \in 0..MaxArgs}

FilterDyn == {None, Some(EmptyDict), Some("Limit" :> 1)}

InitFilter ==
    /\ PageIdle
    /\ QueryIdle
    /\ UpdateIdle
    /\ StoreIdle
    /\ ExtraIdle

\* One call of DynaModel.query, up to its first request.
FilterQueryCall ==
    /\ f_calls = 0
    /\ \E args \in FilterArgs, kw \in FilterInputs, qk \in FilterDyn :
          /\ f_method' = "query"
          /\ f_args' = args
          /\ f_kwargs' = kw
          /\ f_dict' = qk
          /\ f_res' = DynaModelQuery(args, qk, kw)
          /\ f_calls' = f_calls + 1
    /\ UNCHANGED <<pvars, qvars, uvars, svars, avars, rvars, hvars, yvars>>

\* One call of DynamoTable3.scan.
FilterScanCall ==
    /\ f_calls = 0
    /\ \E args \in FilterArgs, kw \in FilterInputs, sk \in FilterDyn :
          /\ f_method' = "scan"
          /\ f_args' = args
          /\ f_kwargs' = kw
          /\ f_dict' = sk
          /\ f_res' = TableScanFilter(args, sk, kw)
          /\ f_calls' = f_calls + 1
    /\ UNCHANGED <<pvars, qvars, uvars, svars, avars, rvars, hvars, yvars>>

\* One call of DynamoTable3.update with a list of conditions, up to the wire
\* call: f_args holds the list, f_kwargs the key and the mutation.
FilterUpdateCall ==
    /\ f_calls = 0
    /\ \E conds \in FilterArgs, pk \in PKs, kw \in Mutations :
          /\ f_method' = "update"
          /\ f_args' = conds
          /\ f_kwargs' = KeyKwargs(pk) \o kw
          /\ f_dict' = None
          /\ \E call \in {TableUpdate(EmptyDict, CondList(conds), KeyKwargs(pk) \o kw)} :
                f_res' = [exc |-> call.exc, wire |-> call.wire, shared |-> None]
          /\ f_calls' = f_calls + 1
    /\ UNCHANGED <<pvars, qvars, uvars, svars, avars, rvars, hvars, yvars>>

NextFilter ==
    \/ FilterQueryCall
    \/ FilterScanCall
    \/ FilterUpdateCall

SpecFilter == InitFilter /\ [][NextFilter]_vars

\* The keyword arguments of the call that are terms on a key of the table.
IsKeyTerm(entry) == QueryKey(entry.key) \in {hash_key, range_key}
KeyTerms == {i \in DOMAIN f_kwargs : IsKeyTerm(f_kwargs[i])}
Filtered == f_res.wire # None /\ Has(f_res.wire[1], "FilterExpression")

\* C12: a call of query with an equality term on the hash key, at most one
\* more key term, and at least one filter (a keyword argument on a non-key
\* attribute or a positional Q expression) sends a request that carries the
\* filter.
C12_Claimed ==
    (/\ f_calls = 1 /\ f_method = "query"
     /\ \E i \in KeyTerms : f_kwargs[i].key = hash_key
     /\ Cardinality(KeyTerms) \in {1, 2}
     /\ \A i \in DOMAIN f_args : f_args[i] # None
     /\ Len(f_args) > 0 \/ KeyTerms # DOMAIN f_kwargs)
        => f_res.exc = "none" /\ Filtered

(***************************************************************************)
(* A scan with one keyword filter, the keyword built from an attribute     *)
(* path and an operator suffix.                                            *)
(***************************************************************************)
\* Names of (nested) attributes: none is the name of an operator; name is
\* also the name of an attribute of the Attr object.
Segments == {<<"count">>, <<"address">>, <<"state">>, <<"name">>}

AttrPaths == UNION {[1..n -> Segments] : n \in 1..MaxPath}

\* The suffixes the docstring of DynaModel.scan lists, and the names of the
\* methods of Attr that differ from them.
OP_in == <<"in">>
OP_type == <<"type">>
OP_is_in == <<"is", "_", "in">>
OP_attribute_type == <<"attribute", "_", "type">>
OP_exists == <<"exists">>
OP_not_exists == <<"not", "_", "exists">>

DocumentedSuffixes ==
    {<<"ne">>, <<"lt">>, <<"lte">>, <<"gt">>, <<"gte">>, OP_between, OP_in,
     OP_exists, OP_not_exists, OP_type, OP_begins_with, <<"contains">>}

Suffixes == DocumentedSuffixes \cup {OP_eq, OP_is_in, OP_attribute_type}

AttrValues ==
    {PyTrue, PyFalse, PyNone, Scalar(1), Str(<<>>), Str(<<"S">>), Str(<<"a", "b">>),
     List(<<>>), List(<<1>>), List(<<1, 2>>), List(<<1, 2, 3>>)}

\* The keyword for a path and a suffix: the segments, then the suffix if
\* there is one, joined by '__'.
AttrToken(path, op) == Join(path \o op)

InitAttr ==
    /\ PageIdle
    /\ QueryIdle
    /\ UpdateIdle
    /\ StoreIdle
    /\ ExtraIdle

\* scan(**{token: value}): DynamoTable3.scan with one keyword filter.
AttrScanCall ==
    /\ a_calls = 0
    /\ \E path \in AttrPaths, op \in {None} \cup {Some(o) : o \in Suffixes},
          value \in AttrValues :
          /\ a_path' = path
          /\ a_op' = op
          /\ a_value' = value
          /\ a_token' = AttrToken(path, op)
          /\ a_parsed' = ParseAttr(AttrToken(path, op))
          /\ a_res' = Q(<<[key |-> AttrToken(path, op), value |-> value]>>)
          /\ a_scan' = TableScanFilter(<<>>, None,
                                       <<[key |-> AttrToken(path, op), value |-> value]>>)
          /\ a_calls' = a_calls + 1
    /\ UNCHANGED <<pvars, qvars, uvars, svars, fvars, rvars, hvars, yvars>>

NextAttr == AttrScanCall

SpecAttr == InitAttr /\ [][NextAttr]_vars

\* The operator of the call: the suffix, eq when there is none.
GivenOp == IF a_op = None THEN OP_eq ELSE a_op[1]
Rejected == a_res.exc # "none" /\ a_res.val = None /\ a_scan.wire = None

\* C13: a filter with between and a value that is not a sequence of exactly
\* two elements, or with exists / not_exists and a value other than True, is
\* rejected: Q returns no expression and the scan sends no request.
C13_Claimed ==
    (/\ a_calls = 1
     /\ \/ GivenOp = OP_between /\ ~(IsIterable(a_value) /\ Len(a_value.l) = 2)
        \/ GivenOp \in {OP_exists, OP_not_exists} /\ a_value # PyTrue)
        => Rejected

\* The positional arguments of the call that are expressions.
IsExpr(arg) == arg # None
GivenExprs == SelectSeq(f_args, IsExpr)

\* C16: a scan whose positional arguments include None (what Q() returns)
\* does what the same scan does without them: wherever None stands in the
\* fold, the predicate accumulated so far is kept and the request carries
\* the same FilterExpression.
C16_Claimed ==
    (/\ f_calls = 1 /\ f_method = "scan"
     /\ \E i \in DOMAIN f_args : f_args[i] = None)
        => f_res = TableScanFilter(GivenExprs, f_dict, f_kwargs)

\* The conjuncts of an expression: what its AND nodes combine.
RECURSIVE Conjuncts(_)
Conjuncts(e) == IF e.k = "and" THEN Conjuncts(e.l) \cup Conjuncts(e.r) ELSE {e}

RECURSIVE NumConjuncts(_)
NumConjuncts(e) == IF e.k = "and" THEN NumConjuncts(e.l) + NumConjuncts(e.r) ELSE 1

\* The leaf predicate a keyword filter attr or attr__op stands for.
KeywordLeaf(entry) ==
    Leaf(<<Split(entry.key)[1]>>,
         IF Len(Split(entry.key)) = 1 THEN OP_eq ELSE Split(entry.key)[2],
         <<entry.value>>)

\* E1 & E2 & ... & En, for n >= 1
RECURSIVE AndAll(_)
AndAll(l) == IF Len(l) = 1 THEN l[1][1] ELSE And(AndAll(SubSeq(l, 1, Len(l) - 1)), l[Len(l)][1])

AllExprs == \A i \in DOMAIN f_args : f_args[i] # None

\* C17: a scan given keyword filters and positional expressions sends a
\* request whose FilterExpression (absent when nothing was given) is built
\* of AND nodes only over exactly the keyword-derived leaves and the
\* positional expressions, each once; and an update given the list of
\* conditions E1, ..., En sends the request it sends given E1 & ... & En.
C17_AndFold ==
    /\ (f_calls = 1 /\ f_method = "scan" /\ AllExprs) =>
          /\ f_res.exc = "none" /\ f_res.wire # None
          /\ Filtered <=> Len(f_kwargs) + Len(f_args) > 0
          /\ Filtered =>
                /\ Conjuncts(f_res.wire[1]["FilterExpression"])
                      = {KeywordLeaf(f_kwargs[i]) : i \in DOMAIN f_kwargs}
                           \cup {f_args[i][1] : i \in DOMAIN f_args}
                /\ NumConjuncts(f_res.wire[1]["FilterExpression"])
                      = Len(f_kwargs) + Len(f_args)
    /\ (f_calls = 1 /\ f_method = "update" /\ AllExprs /\ Len(f_args) > 0) =>
          \E direct \in {TableUpdate(EmptyDict, CondExpr(AndAll(f_args)), f_kwargs)} :
              f_res.exc = direct.exc /\ f_res.wire = direct.wire

\* A scan with two keyword filters and two positional expressions sent a
\* request with a FilterExpression.
C17_Witness ==
    /\ f_calls = 1 /\ f_method = "scan"
    /\ Len(f_kwargs) = 2 /\ Len(f_args) = 2 /\ AllExprs /\ f_args[1] # f_args[2]
    /\ Filtered

\* The value has the shape the operator takes: two elements for between,
\* True for exists and not_exists, anything for the others.
WellShaped ==
    IF GivenOp = OP_between THEN IsIterable(a_value) /\ Len(a_value.l) = 2
    ELSE IF GivenOp \in {OP_exists, OP_not_exists} THEN a_value = PyTrue
    ELSE TRUE

\* The operands the operator is applied to.
Operands ==
    IF GivenOp = OP_between THEN [i \in DOMAIN a_value.l |-> Element(a_value, i)]
    ELSE IF GivenOp \in {OP_exists, OP_not_exists} THEN <<>>
    ELSE <<a_value>>

\* The method of Attr a documented suffix stands for.
Implied(op) ==
    IF op = OP_in THEN OP_is_in
    ELSE IF op = OP_type THEN OP_attribute_type
    ELSE op

\* No segment of the path names an attribute of the Attr object.
PlainPath == \A i \in DOMAIN a_path : ~HasAttr(a_path[i])

\* C14: for a single-entry mapping whose keyword is a path and no suffix or
\* a documented suffix, with a value of the operator's shape, Q returns one
\* leaf predicate on that path with the operator the suffix implies (eq when
\* there is none; is_in for in, attribute_type for type).
C14_Claimed ==
    (/\ a_calls = 1
     /\ PlainPath
     /\ GivenOp \in DocumentedSuffixes \cup {OP_eq}
     /\ WellShaped)
        => /\ a_res.exc = "none"
           /\ a_res.val = Some(Leaf(a_path, Implied(GivenOp), Operands))

\* C15: the keyword made of the segments of a path and of no suffix or a
\* documented suffix, joined by '__', parses to that path and that operator
\* (eq when there is no suffix), with nothing left over.
C15_Claimed ==
    (a_calls = 1 /\ GivenOp \in DocumentedSuffixes \cup {OP_eq})
        => a_parsed = [path |-> a_path, op |-> GivenOp, rest |-> <<>>]

(***************************************************************************)
(* DynamoTable3.get and get_batch: the validation of the key maps, the     *)
(* requests, and the retry loop of get_batch over UnprocessedKeys.         *)
(***************************************************************************)
\* (mutant) only the first attribute of a key map is looked at
ValidFieldsHead(kw) == Len(kw) = 0 \/ kw[1].key \in dynamorm_fields

\* for k, v in six.iteritems(kwargs): no k outside the schema fields
ValidFields(kw) == \A i \in DOMAIN kw : kw[i].key \in dynamorm_fields

\* The dict of a key map given as keyword arguments.
KwDict(kw) ==
    [k \in {kw[i].key : i \in DOMAIN kw} |->
        kw[CHOOSE i \in DOMAIN kw : kw[i].key = k].value]

\* get_batch up to its loop: every key map validated, then Keys,
\* ConsistentRead and ProjectionExpression set in batch_get_kwargs.
BatchGetKwargs(keys, consistent, attrs) ==
    IF \E i \in DOMAIN keys : ~ValidFields(keys[i])
    THEN Raise("InvalidSchemaField")
    ELSE Ok(("Keys" :> [i \in DOMAIN keys |-> KwDict(keys[i])])
            @@ (IF consistent THEN "ConsistentRead" :> TRUE ELSE EmptyDict)
            @@ (IF attrs # None THEN "ProjectionExpression" :> attrs[1] ELSE EmptyDict))

\* get up to the wire call: the key map validated, then Key and
\* ConsistentRead set in get_item_kwargs.
GetItemKwargs(kw, consistent) ==
    IF ~ValidFields(kw)
    THEN Raise("InvalidSchemaField")
    ELSE Ok(("Key" :> KwDict(kw))
            @@ (IF consistent THEN "ConsistentRead" :> TRUE ELSE EmptyDict))

\* The table the reads go to: the items with these primary keys exist.
BatchPKs == {<<1, 1>>, <<1, 2>>, <<2, 1>>}
BatchExisting == {<<1, 1>>, <<2, 1>>}

Exists(key) == <<key[hash_key], key[range_key]>> \in BatchExisting
StoredItem(key) == DictSet(key, COUNT, 1)

\* The item as a request with these parameters returns it.
Project(item, params) ==
    IF Has(params, "ProjectionExpression")
    THEN [k \in {params["ProjectionExpression"]} |-> item[k]]
    ELSE item

\* The elements of seq at the positions in S, in order.
PickAt(seq, S) ==
    LET F[i \in 0..Len(seq)] ==
            IF i = 0 THEN <<>>
            ELSE IF i \in S THEN Append(F[i - 1], seq[i]) ELSE F[i - 1]
    IN  F[Len(seq)]

\* resource.batch_get_item(RequestItems={name: entry}) when the transport
\* processes the keys at the positions in S: the items found for them, and
\* under UnprocessedKeys the entry for the keys it left (None when it left
\* none: the table is then not listed).
batch_get_item(entry, S) ==
    LET processed == PickAt(entry["Keys"], S)
        left == PickAt(entry["Keys"], DOMAIN entry["Keys"] \ S)
        found == SelectSeq(processed, Exists)
    IN  [Items |-> [i \in DOMAIN found |-> Project(StoredItem(found[i]), entry)],
         UnprocessedKeys |-> IF left = <<>> THEN None
                             ELSE Some(("Keys" :> left) @@ entry)]

\* table.get_item(**request): Item is in the response when the item exists.
get_item(request) ==
    IF Exists(request["Key"]) THEN Some(StoredItem(request["Key"])) ELSE None

\* (mutant) the retry repeats the request that was just sent
RetryKwargsSame(batch_get_kwargs, response) ==
    IF response.UnprocessedKeys = None THEN None ELSE Some(batch_get_kwargs)

\* batch_get_kwargs = response['UnprocessedKeys'][self.name], None standing
\* for the KeyError that ends the loop
RetryKwargs(batch_get_kwargs, response) == response.UnprocessedKeys

\* The key maps of the calls: primary keys, and maps with an attribute that
\* is not a schema field.
InvalidMaps ==
    {<<[key |-> <<"invalid">>, value |-> 1]>>,
     KeyKwargs(<<1, 1>>) \o <<[key |-> <<"nope">>, value |-> 1]>>}

KeyMaps == {KeyKwargs(pk) : pk \in BatchPKs} \cup InvalidMaps

BatchInputs ==
    UNION {{f \in [1..n -> KeyMaps] : \A i, j \in 1..n : i # j => f[i] # f[j]} :
           n \in 1..MaxKeys}

\* The mutations of the update calls: on count, and on an attribute that is
\* not a schema field.
ReadMutations ==
    {<<[key |-> t, value |-> 1]>> :
        t \in {COUNT, Token(COUNT, <<"plus">>), <<"nope">>, Token(<<"nope">>, <<"plus">>)}}

InitRead ==
    /\ PageIdle
    /\ QueryIdle
    /\ UpdateIdle
    /\ StoreIdle
    /\ ExtraIdle

\* get(consistent=c, **kw): the validation, then the request and the item
\* of the response (None when there is none).
GetCall ==
    /\ r_pc = "idle"
    /\ \E pk \in BatchPKs, extra \in {<<>>} \cup InvalidMaps, c \in BOOLEAN :
          /\ r_op' = "get"
          /\ r_keys' = <<KeyKwargs(pk) \o extra>>
          /\ r_consistent' = c
          /\ \E request \in {GetItemKwargs(KeyKwargs(pk) \o extra, c)} :
                IF request.exc # "none"
                THEN /\ r_pc' = "raised"
                     /\ r_exc' = request.exc
                     /\ UNCHANGED <<r_sent, r_yielded>>
                ELSE /\ r_pc' = "done"
                     /\ r_exc' = "none"
                     /\ r_sent' = <<request.val[1]>>
                     /\ r_yielded' = get_item(request.val[1])
    /\ UNCHANGED <<r_attrs, r_kwargs, r_resps, r_pending>>
    /\ UNCHANGED <<pvars, qvars, uvars, svars, fvars, avars, hvars, yvars>>

\* update(**kw) up to the wire call, the key and one mutation given.
ReadUpdateCall ==
    /\ r_pc = "idle"
    /\ \E pk \in BatchPKs, kw \in ReadMutations :
          /\ r_op' = "update"
          /\ r_keys' = <<KeyKwargs(pk) \o kw>>
          /\ \E call \in {TableUpdate(EmptyDict, CondNone, KeyKwargs(pk) \o kw)} :
                /\ r_pc' = IF call.exc # "none" THEN "raised" ELSE "done"
                /\ r_exc' = call.exc
                /\ r_sent' = call.wire
    /\ UNCHANGED <<r_consistent, r_attrs, r_kwargs, r_resps, r_pending, r_yielded>>
    /\ UNCHANGED <<pvars, qvars, uvars, svars, fvars, avars, hvars, yvars>>

\* get_batch(keys, consistent, attrs): a generator that has not run yet.
GetBatchCall ==
    /\ r_pc = "idle"
    /\ \E keys \in BatchInputs, c \in BOOLEAN, attrs \in {None, Some(range_key)} :
          /\ r_op' = "get_batch"
          /\ r_keys' = keys
          /\ r_consistent' = c
          /\ r_attrs' = attrs
          /\ r_pc' = "created"
    /\ UNCHANGED <<r_exc, r_kwargs, r_sent, r_resps, r_pending, r_yielded>>
    /\ UNCHANGED <<pvars, qvars, uvars, svars, fvars, avars, hvars, yvars>>

\* The first next() of the generator: the code before the while loop.
GetBatchStart ==
    /\ r_pc = "created"
    /\ \E built \in {BatchGetKwargs(r_keys, r_consistent, r_attrs)} :
          IF built.exc # "none"
          THEN /\ r_pc' = "raised"
               /\ r_exc' = built.exc
               /\ UNCHANGED r_kwargs
          ELSE /\ r_pc' = "call"
               /\ r_kwargs' = built.val
               /\ UNCHANGED r_exc
    /\ UNCHANGED <<r_op, r_keys, r_consistent, r_attrs, r_sent, r_resps, r_pending,
                   r_yielded>>
    /\ UNCHANGED <<pvars, qvars, uvars, svars, fvars, avars, hvars, yvars>>

\* response = self.resource.batch_get_item(...): the transport processes
\* some of the keys, or none and fails the request.
GetBatchRequest ==
    /\ r_pc = "call"
    /\ \E S \in SUBSET DOMAIN r_kwargs[1]["Keys"] :
          /\ r_sent' = Append(r_sent, r_kwargs[1])
          /\ IF S = {}
             THEN /\ r_pc' = "raised"
                  /\ r_exc' = "ProvisionedThroughputExceededException"
                  /\ UNCHANGED <<r_resps, r_pending>>
             ELSE \E response \in {batch_get_item(r_kwargs[1], S)} :
                  /\ r_pc' = "items"
                  /\ r_resps' = Append(r_resps, response)
                  /\ r_pending' = response.Items
                  /\ UNCHANGED r_exc
    /\ UNCHANGED <<r_op, r_keys, r_consistent, r_attrs, r_kwargs, r_yielded>>
    /\ UNCHANGED <<pvars, qvars, uvars, svars, fvars, avars, hvars, yvars>>

\* for item in response['Responses'][self.name]: yield item
GetBatchYield ==
    /\ r_pc = "items" /\ r_pending # <<>>
    /\ r_yielded' = Append(r_yielded, Head(r_pending))
    /\ r_pending' = Tail(r_pending)
    /\ UNCHANGED <<r_op, r_keys, r_consistent, r_attrs, r_pc, r_exc, r_kwargs, r_sent,
                   r_resps>>
    /\ UNCHANGED <<pvars, qvars, uvars, svars, fvars, avars, hvars, yvars>>

\* The end of the for loop: the unprocessed entry of the response becomes
\* batch_get_kwargs and the loop goes round, or the KeyError ends it.
GetBatchRetry ==
    /\ r_pc = "items" /\ r_pending = <<>>
    /\ \E next \in {RetryKwargs(r_kwargs[1], r_resps[Len(r_resps)])} :
          IF next = None
          THEN r_pc' = "done" /\ UNCHANGED r_kwargs
          ELSE r_pc' = "call" /\ r_kwargs' = next
    /\ UNCHANGED <<r_op, r_keys, r_consistent, r_attrs, r_exc, r_sent, r_resps,
                   r_pending, r_yielded>>
    /\ UNCHANGED <<pvars, qvars, uvars, svars, fvars, avars, hvars, yvars>>

NextRead ==
    \/ GetCall
    \/ ReadUpdateCall
    \/ GetBatchCall
    \/ GetBatchStart
    \/ GetBatchRequest
    \/ GetBatchYield
    \/ GetBatchRetry

SpecRead == InitRead /\ [][NextRead]_vars

\* A key map or mutation of the call has an attribute outside the schema.
NonSchemaGiven ==
    \E i \in DOMAIN r_keys : \E j \in DOMAIN r_keys[i] :
        UpdateKey(r_keys[i][j].key) \notin dynamorm_fields

RECURSIVE ItemsOf(_)
ItemsOf(resps) == IF resps = <<>> THEN <<>> ELSE Head(resps).Items \o ItemsOf(Tail(resps))

\* The consumer keeps taking items and the transport keeps answering.
SpecReadFair ==
    SpecRead /\ WF_vars(GetBatchStart \/ GetBatchRequest \/ GetBatchYield \/ GetBatchRetry)

\* C19: in get_batch, every request after the first is the entry the
\* response before it listed under UnprocessedKeys; a request follows only
\* responses that listed one, and the generator is done only after a
\* response that listed none; the items yielded, then those pending, are
\* the items of the responses in order; and a started generator comes to an
\* end (the transport processes at least one key per answered request).
C19_RetryLoop ==
    /\ [](r_op = "get_batch" =>
            /\ \A i \in 2..Len(r_sent) : r_resps[i - 1].UnprocessedKeys = Some(r_sent[i])
            /\ \A i \in 1..(Len(r_sent) - 1) : r_resps[i].UnprocessedKeys # None
            /\ r_yielded \o r_pending = ItemsOf(r_resps)
            /\ r_pc = "done" =>
                  /\ r_resps # <<>> /\ Len(r_sent) = Len(r_resps)
                  /\ r_resps[Len(r_resps)].UnprocessedKeys = None
                  /\ r_yielded = ItemsOf(r_resps))
    /\ (r_pc = "created") ~> (r_pc \in {"done", "raised"})

\* A get_batch of three keys ended after three requests and yielded the two
\* items that exist.
C19_Witness ==
    /\ r_op = "get_batch" /\ r_pc = "done"
    /\ Len(r_sent) = 3 /\ Len(r_yielded) = 2

(***************************************************************************)
(* The memoized handles: DynamoCommon3.get_resource and                    *)
(* DynamoTable3.get_table, called from several threads.  Each statement    *)
(* that reads or writes the class attribute is one step.                   *)
(***************************************************************************)
\* The configurations get_resource is called with: 0 is no kwargs (what
\* get_table passes), 1 and 2 are two different connection parameters.
NoKwargs == 0
ResourceKwargs == {NoKwargs, 1, 2}

\* boto3.resource('dynamodb', **kw) and resource.Table(name): a new object
\* per call.
NewResource(kw, n) == [kind |-> "resource", kw |-> kw, id |-> n]
NewTable(resource, n) == [kind |-> "table", of |-> resource, id |-> n]

InitHandle ==
    /\ PageIdle
    /\ QueryIdle
    /\ UpdateIdle
    /\ StoreIdle
    /\ ExtraIdle

\* A thread calls get_resource(**kw).
CallGetResource(t) ==
    /\ h_pc[t] = "idle"
    /\ \E kw \in ResourceKwargs :
          /\ h_call' = [h_call EXCEPT ![t] = "get_resource"]
          /\ h_kw' = [h_kw EXCEPT ![t] = kw]
          /\ h_pc' = [h_pc EXCEPT ![t] = "resource_try"]
    /\ UNCHANGED <<h_resource, h_table, h_new, h_res, h_got, h_made, h_tmade>>
    /\ UNCHANGED <<pvars, qvars, uvars, svars, fvars, avars, rvars, yvars>>

\* A thread calls get_table(name).
CallGetTable(t) ==
    /\ h_pc[t] = "idle"
    /\ h_call' = [h_call EXCEPT ![t] = "get_table"]
    /\ h_pc' = [h_pc EXCEPT ![t] = "table_try"]
    /\ UNCHANGED <<h_resource, h_table, h_kw, h_new, h_res, h_got, h_made, h_tmade>>
    /\ UNCHANGED <<pvars, qvars, uvars, svars, fvars, avars, rvars, yvars>>

\* get_resource returns value to its caller: the thread itself, or the
\* get_table it runs in.
ReturnResource(t, value) ==
    IF h_call[t] = "get_table"
    THEN /\ h_res' = [h_res EXCEPT ![t] = value]
         /\ h_pc' = [h_pc EXCEPT ![t] = "table_make"]
         /\ UNCHANGED h_got
    ELSE /\ h_got' = [h_got EXCEPT ![t] = value]
         /\ h_pc' = [h_pc EXCEPT ![t] = "done"]
         /\ UNCHANGED h_res

\* try: return DynamoCommon3._resource / except AttributeError
ResourceTry(t) ==
    /\ h_pc[t] = "resource_try"
    /\ IF h_resource # None
       THEN ReturnResource(t, h_resource)
       ELSE /\ h_pc' = [h_pc EXCEPT ![t] = "resource_make"]
            /\ UNCHANGED <<h_res, h_got>>
    /\ UNCHANGED <<h_resource, h_table, h_call, h_kw, h_new, h_made, h_tmade>>
    /\ UNCHANGED <<pvars, qvars, uvars, svars, fvars, avars, rvars, yvars>>

\* boto3.resource('dynamodb', **kwargs)
ResourceMake(t) ==
    /\ h_pc[t] = "resource_make"
    /\ h_new' = [h_new EXCEPT ![t] = Some(NewResource(h_kw[t], h_made + 1))]
    /\ h_made' = h_made + 1
    /\ h_pc' = [h_pc EXCEPT ![t] = "resource_store"]
    /\ UNCHANGED <<h_resource, h_table, h_call, h_kw, h_res, h_got, h_tmade>>
    /\ UNCHANGED <<pvars, qvars, uvars, svars, fvars, avars, rvars, yvars>>

\* DynamoCommon3._resource = ...
ResourceStore(t) ==
    /\ h_pc[t] = "resource_store"
    /\ h_resource' = h_new[t]
    /\ h_new' = [h_new EXCEPT ![t] = None]
    /\ h_pc' = [h_pc EXCEPT ![t] = "resource_return"]
    /\ UNCHANGED <<h_table, h_call, h_kw, h_res, h_got, h_made, h_tmade>>
    /\ UNCHANGED <<pvars, qvars, uvars, svars, fvars, avars, rvars, yvars>>

\* return DynamoCommon3._resource
ResourceReturn(t) ==
    /\ h_pc[t] = "resource_return"
    /\ ReturnResource(t, h_resource)
    /\ UNCHANGED <<h_resource, h_table, h_call, h_kw, h_new, h_made, h_tmade>>
    /\ UNCHANGED <<pvars, qvars, uvars, svars, fvars, avars, rvars, yvars>>

\* try: return cls._table / except AttributeError: cls.get_resource()
TableTry(t) ==
    /\ h_pc[t] = "table_try"
    /\ IF h_table # None
       THEN /\ h_got' = [h_got EXCEPT ![t] = h_table]
            /\ h_pc' = [h_pc EXCEPT ![t] = "done"]
            /\ UNCHANGED h_kw
       ELSE /\ h_kw' = [h_kw EXCEPT ![t] = NoKwargs]
            /\ h_pc' = [h_pc EXCEPT ![t] = "resource_try"]
            /\ UNCHANGED h_got
    /\ UNCHANGED <<h_resource, h_table, h_call, h_new, h_res, h_made, h_tmade>>
    /\ UNCHANGED <<pvars, qvars, uvars, svars, fvars, avars, rvars, yvars>>

\* cls.get_resource().Table(name)
TableMake(t) ==
    /\ h_pc[t] = "table_make"
    /\ h_new' = [h_new EXCEPT ![t] = Some(NewTable(h_res[t][1], h_tmade + 1))]
    /\ h_tmade' = h_tmade + 1
    /\ h_pc' = [h_pc EXCEPT ![t] = "table_store"]
    /\ UNCHANGED <<h_resource, h_table, h_call, h_kw, h_res, h_got, h_made>>
    /\ UNCHANGED <<pvars, qvars, uvars, svars, fvars, avars, rvars, yvars>>

\* cls._table = ...
TableStore(t) ==
    /\ h_pc[t] = "table_store"
    /\ h_table' = h_new[t]
    /\ h_new' = [h_new EXCEPT ![t] = None]
    /\ h_pc' = [h_pc EXCEPT ![t] = "table_return"]
    /\ UNCHANGED <<h_resource, h_call, h_kw, h_res, h_got, h_made, h_tmade>>
    /\ UNCHANGED <<pvars, qvars, uvars, svars, fvars, avars, rvars, yvars>>

\* return cls._table
TableReturn(t) ==
    /\ h_pc[t] = "table_return"
    /\ h_got' = [h_got EXCEPT ![t] = h_table]
    /\ h_pc' = [h_pc EXCEPT ![t] = "done"]
    /\ UNCHANGED <<h_resource, h_table, h_call, h_kw, h_new, h_res, h_made, h_tmade>>
    /\ UNCHANGED <<pvars, qvars, uvars, svars, fvars, avars, rvars, yvars>>

NextHandle ==
    \E t \in Threads :
        \/ CallGetResource(t)
        \/ CallGetTable(t)
        \/ ResourceTry(t)
        \/ ResourceMake(t)
        \/ ResourceStore(t)
        \/ ResourceReturn(t)
        \/ TableTry(t)
        \/ TableMake(t)
        \/ TableStore(t)
        \/ TableReturn(t)

SpecHandle == InitHandle /\ [][NextHandle]_vars

\* The threads whose call of this function has returned.
Returned(fn) == {t \in Threads : h_call[t] = fn /\ h_pc[t] = "done"}

\* C20: however the first calls of get_resource and of get_table
\* interleave, boto3.resource and resource.Table are each called at most
\* once, and the callers of one function that have returned all hold the
\* same handle.
C20_Claimed ==
    /\ h_made <= 1
    /\ h_tmade <= 1
    /\ \A fn \in {"get_resource", "get_table"} :
          \A t, u \in Returned(fn) : h_got[t] = h_got[u]

(***************************************************************************)
(* Two callers of put_unique on one table.  A caller builds its request    *)
(* (a step of its own) and then sends it; the store checks the condition   *)
(* and writes the item in one step.                                        *)
(***************************************************************************)
InitUnique ==
    /\ PageIdle
    /\ QueryIdle
    /\ UpdateIdle
    /\ StoreIdle
    /\ ExtraIdle

\* put_unique(item) up to the call of put: the condition is set in kwargs.
PutUniqueBuild(t) ==
    /\ c_pc[t] = "idle"
    /\ \E item \in PutItems :
          /\ c_item' = [c_item EXCEPT ![t] = Some(item)]
          /\ c_pc' = [c_pc EXCEPT ![t] = "built"]
    /\ UNCHANGED <<c_code, c_exc>>
    /\ UNCHANGED <<pvars, qvars, uvars, svars, x2vars, tvars, ivars>>

\* self.put(item, **kwargs) and the except clause around it.
PutUniqueSend(t) ==
    /\ c_pc[t] = "built"
    /\ \E fault \in Faults :
          \E out \in {put_item(store,
                               DictSet(PutUniqueKwargs(EmptyDict), "Item",
                                       remove_nones(c_item[t][1])),
                               fault)} :
              /\ store' = out.store
              /\ c_code' = [c_code EXCEPT ![t] = out.code]
              /\ c_exc' = [c_exc EXCEPT ![t] = PutUniqueError(out.code)]
    /\ c_pc' = [c_pc EXCEPT ![t] = "done"]
    /\ UNCHANGED c_item
    /\ UNCHANGED <<inst, s_op, s_item, s_exc, s_code, s_sent, s_false, s_pre, s_post>>
    /\ UNCHANGED <<pvars, qvars, uvars, x2vars, tvars, ivars>>

NextUnique ==
    \E t \in Callers :
        \/ PutUniqueBuild(t)
        \/ PutUniqueSend(t)

SpecUnique == InitUnique /\ [][NextUnique]_vars

\* Both calls are over, were for one primary key, and the transport itself
\* failed neither.
BothAnswered ==
    /\ \A t \in Callers : c_pc[t] = "done" /\ c_code[t] \notin Faults \ {"none"}
    /\ KeyOf(c_item[1][1]) = KeyOf(c_item[2][1])

\* C21: when two callers put_unique items of one primary key that is not
\* stored, and the transport answers both, one call succeeds, the other
\* raises HashKeyExists, and the stored item is the one the successful call
\* put.
C21_OneWinner ==
    BothAnswered =>
        \E t \in Callers :
            /\ c_exc[t] = "none"
            /\ \A u \in Callers \ {t} : c_exc[u] = "HashKeyExists"
            /\ store[KeyOf(c_item[t][1])] = Some(remove_nones(c_item[t][1]))

\* Both calls were built before either was sent, for one key with different
\* counts, and the second caller won.
C21_Witness ==
    /\ BothAnswered
    /\ c_item[1] # c_item[2]
    /\ c_exc[2] = "none" /\ c_exc[1] = "HashKeyExists"

(***************************************************************************)
(* DynamoTable3.update_table: one structural operation per pass, each pass *)
(* waiting for the table and its global indexes to be ACTIVE first.        *)
(***************************************************************************)
\* Capacities are (read, write) pairs; NoCap is a declaration without read
\* and write.
NoCap == <<0, 0>>
Cap1 == <<1, 1>>
Cap2 == <<2, 1>>

\* The names of the global indexes, in the order the loops visit them.
IndexNames == <<"index1", "index2">>
IndexSet == {IndexNames[i] : i \in DOMAIN IndexNames}

\* Statuses of a table or index.  The last two stand for the statuses that
\* are neither ACTIVE nor transitional.
TableStatuses == {"ACTIVE", "CREATING", "UPDATING", "INACCESSIBLE_ENCRYPTION_CREDENTIALS"}
IndexStatuses == {"ACTIVE", "CREATING", "UPDATING", "DELETING", "UNKNOWN"}

Index(status, cap) == [IndexStatus |-> status, ProvisionedThroughput |-> cap]

\* _index_status(table, index_name): None when the index is not listed
index_status(table, index_name) ==
    IF table.global_secondary_indexes[index_name] = None THEN None
    ELSE Some(table.global_secondary_indexes[index_name][1].IndexStatus)

\* The names table.global_secondary_indexes lists, in order.
ListedIndexes(table) ==
    SelectSeq(IndexNames, LAMBDA n : table.global_secondary_indexes[n] # None)

\* Nothing is in progress on the live table.
Quiet(table) ==
    /\ table.table_status = "ACTIVE"
    /\ \A n \in IndexSet : index_status(table, n) \in {None, Some("ACTIVE")}

ok_statusesAny(thing_type) ==
    TableStatuses \cup IndexStatuses

\* ok_statuses of _wait: the statuses it sleeps on, by thing_type
ok_statuses(thing_type) ==
    IF thing_type = "index" THEN {"CREATING", "UPDATING", "DELETING"}
    ELSE {"CREATING", "UPDATING"}

waitTableOnly(thing_type, thing_status) ==
    IF thing_type = "index" \/ thing_status = Some("ACTIVE") THEN "done"
    ELSE IF thing_status[1] \in ok_statuses(thing_type) THEN "sleep"
    ELSE "raise"

\* _wait, one round of it on the status the callback returned: "done" when
\* the thing is ACTIVE (or, an index, gone), "sleep" when it sleeps and
\* reloads the table, "raise" when it raises TableNotActive.
wait(thing_type, thing_status) ==
    IF thing_status = Some("ACTIVE") THEN "done"
    ELSE IF thing_type = "index" /\ thing_status = None THEN "done"
    ELSE IF thing_status[1] \in ok_statuses(thing_type) THEN "sleep"
    ELSE "raise"

\* The first index for which a loop of update_table acts, None if none.
FirstIndex(names, Test(_)) ==
    LET hits == SelectSeq(names, Test)
    IN  IF hits = <<>> THEN None ELSE Some(Head(hits))

\* What one pass of update_table does after wait_for_active, given the
\* declaration (self) and the loaded description (table): one update
\* operation, a TypeError, or the return.
decide(self, table) ==
    LET undeclared == FirstIndex(ListedIndexes(table),
                                 LAMBDA n : self.indexes[n] = None)
        Differs(n) ==
            /\ self.indexes[n] # None
            /\ \/ table.global_secondary_indexes[n] = None
               \/ /\ self.indexes[n][1][1] # 0
                  /\ self.indexes[n][1][2] # 0
                  /\ self.indexes[n][1] #
                        table.global_secondary_indexes[n][1].ProvisionedThroughput
        declared == FirstIndex(IndexNames, Differs)
    IN  IF /\ self.read # 0
           /\ self.write # 0
           /\ <<self.read, self.write>> # table.provisioned_throughput
        THEN [kind |-> "update", op |-> "ProvisionedThroughput",
              IndexName |-> "", cap |-> <<self.read, self.write>>]
        ELSE IF undeclared # None
        THEN [kind |-> "update", op |-> "Delete",
              IndexName |-> undeclared[1], cap |-> NoCap]
        ELSE IF declared = None
        THEN [kind |-> "return", op |-> "", IndexName |-> "", cap |-> NoCap]
        ELSE IF table.global_secondary_indexes[declared[1]] # None
        \* index['IndexName'] on an index object, which has no item access
        THEN [kind |-> "TypeError", op |-> "Update",
              IndexName |-> declared[1], cap |-> self.indexes[declared[1]][1]]
        ELSE [kind |-> "update", op |-> "Create",
              IndexName |-> declared[1], cap |-> self.indexes[declared[1]][1]]

\* The store's UpdateTable: it refuses while something is in progress, and
\* otherwise starts the operation.
UpdateTable(table, request) ==
    IF ~Quiet(table) THEN [code |-> "ResourceInUseException", table |-> table]
    ELSE IF request.op = "ProvisionedThroughput"
    THEN [code |-> "none",
          table |-> [table EXCEPT !.table_status = "UPDATING",
                                  !.provisioned_throughput = request.cap]]
    ELSE IF request.op = "Delete"
    THEN [code |-> "none",
          table |-> [table EXCEPT !.global_secondary_indexes[request.IndexName] =
                        Some(Index("DELETING", @[1].ProvisionedThroughput))]]
    ELSE IF request.op = "Create"
    THEN [code |-> "none",
          table |-> [table EXCEPT !.global_secondary_indexes[request.IndexName] =
                        Some(Index("CREATING", request.cap))]]
    ELSE [code |-> "none",
          table |-> [table EXCEPT !.global_secondary_indexes[request.IndexName] =
                        Some(Index("UPDATING", request.cap))]]

\* The failures of the transport on an update: none, or a throttled request.
TableFaults == {"none", "LimitExceededException"}

\* The next value of self._update_table_ops at the head of update_table.
BumpOps(ops) == IF ops = None THEN Some(0) ELSE Some(ops[1] + 1)

\* The declarations: a table with or without capacity, each index declared
\* (with its capacity) or not.
Declarations ==
    [read : {0, 1, 2}, write : {1},
     indexes : [IndexSet -> {None, Some(Cap1)}]]

\* The live tables update_table may find.
LiveIndexes ==
    {None, Some(Index("ACTIVE", Cap1)), Some(Index("ACTIVE", Cap2)),
     Some(Index("CREATING", Cap1)), Some(Index("DELETING", Cap1)),
     Some(Index("UNKNOWN", Cap1))}
LiveTables ==
    [table_status : {"ACTIVE", "UPDATING", "INACCESSIBLE_ENCRYPTION_CREDENTIALS"},
     provisioned_throughput : {Cap1},
     global_secondary_indexes : [IndexSet -> LiveIndexes]]

InitTable ==
    /\ PageIdle /\ QueryIdle /\ UpdateIdle /\ StoreIdle /\ OthersIdle /\ SaveIdle
    /\ t_decl \in Declarations
    /\ t_live \in LiveTables
    /\ t_cache = None
    /\ t_pc = "idle"
    /\ t_todo = <<>>
    /\ t_ops = None
    /\ t_ret = None
    /\ t_exc = "none"
    /\ t_calls = 0
    /\ t_issued = 0
    /\ t_inpass = 0
    /\ t_busy = FALSE
    /\ t_prev = "none"

NotTable == <<pvars, qvars, uvars, svars, x2vars, cvars, ivars>>

\* The caller invokes Table.update_table().
UpdateTableCall ==
    /\ t_pc \in {"idle", "returned", "raised"}
    /\ t_calls < MaxInvocations
    /\ t_calls' = t_calls + 1
    /\ t_pc' = "pass"
    /\ t_issued' = 0
    /\ t_ret' = None
    /\ t_exc' = "none"
    /\ t_prev' = t_exc
    /\ UNCHANGED <<t_decl, t_live, t_cache, t_todo, t_ops, t_inpass, t_busy>>
    /\ UNCHANGED NotTable

\* The head of update_table, on the first entry and on each recursive one:
\* the counter, and a new Table resource that has loaded nothing yet.
UpdateTablePass ==
    /\ t_pc = "pass"
    /\ t_ops' = BumpOps(t_ops)
    /\ t_cache' = None
    /\ t_inpass' = 0
    /\ t_pc' = "wait_table"
    /\ UNCHANGED <<t_decl, t_live, t_todo, t_ret, t_exc, t_calls, t_issued, t_busy, t_prev>>
    /\ UNCHANGED NotTable

\* The description the resource answers from: loaded on the first access
\* and after each sleep.
Loaded == IF t_cache = None THEN t_live ELSE t_cache[1]

\* _wait('table', ...), one round.
WaitTable ==
    /\ t_pc = "wait_table"
    /\ LET table == Loaded
           round == wait("table", Some(table.table_status))
       IN  /\ t_cache' = IF round = "sleep" THEN None ELSE Some(table)
           /\ t_pc' = IF round = "done" THEN "wait_index"
                      ELSE IF round = "sleep" THEN "wait_table" ELSE "raised"
           /\ t_exc' = IF round = "raise" THEN "TableNotActive" ELSE t_exc
           /\ t_todo' = IF round = "done" THEN ListedIndexes(table) ELSE t_todo
    /\ UNCHANGED <<t_decl, t_live, t_ops, t_ret, t_calls, t_issued, t_inpass, t_busy, t_prev>>
    /\ UNCHANGED NotTable

\* _wait('index', ...), one round for the index the loop is at.
WaitIndex ==
    /\ t_pc = "wait_index"
    /\ t_todo # <<>>
    /\ LET table == Loaded
           round == wait("index", index_status(table, Head(t_todo)))
       IN  /\ t_cache' = IF round = "sleep" THEN None ELSE Some(table)
           /\ t_pc' = IF round = "raise" THEN "raised" ELSE "wait_index"
           /\ t_exc' = IF round = "raise" THEN "TableNotActive" ELSE t_exc
           /\ t_todo' = IF round = "done" THEN Tail(t_todo) ELSE t_todo
    /\ UNCHANGED <<t_decl, t_live, t_ops, t_ret, t_calls, t_issued, t_inpass, t_busy, t_prev>>
    /\ UNCHANGED NotTable

\* The rest of the pass: the one update operation it sends, then the
\* recursive call; or the return of the counter, which is reset.
UpdateTableDecide ==
    /\ t_pc = "wait_index"
    /\ t_todo = <<>>
    /\ \E fault \in TableFaults :
          /\ TRUE
          /\ \E step \in {decide(t_decl, t_cache[1])} :
                \E out \in {UpdateTable(t_live, step)} :
                   LET code == IF fault # "none" THEN fault ELSE out.code
                   IN  IF step.kind = "return"
                       THEN /\ fault = "none"
                            /\ t_ret' = t_ops
                            /\ t_ops' = None
                            /\ t_pc' = "returned"
                            /\ UNCHANGED <<t_live, t_exc, t_issued, t_inpass, t_busy>>
                       ELSE IF step.kind = "TypeError"
                       THEN /\ fault = "none"
                            /\ t_pc' = "raised"
                            /\ t_exc' = "TypeError"
                            /\ UNCHANGED <<t_live, t_ret, t_ops, t_issued, t_inpass, t_busy>>
                       ELSE /\ t_busy' = (t_busy \/ ~Quiet(t_live))
                            /\ t_live' = IF code = "none" THEN out.table ELSE t_live
                            /\ t_issued' = IF code = "none" THEN t_issued + 1 ELSE t_issued
                            /\ t_inpass' = IF code = "none" THEN t_inpass + 1 ELSE t_inpass
                            /\ t_pc' = IF code = "none" THEN "pass" ELSE "raised"
                            /\ t_exc' = IF code = "none" THEN t_exc ELSE code
                            /\ UNCHANGED <<t_ret, t_ops>>
    /\ UNCHANGED <<t_decl, t_cache, t_todo, t_calls, t_prev>>
    /\ UNCHANGED NotTable

\* The store finishes what is in progress: the table or an index becomes
\* ACTIVE, a deleted index disappears.
StoreSettle ==
    /\ \/ /\ t_live.table_status \in {"CREATING", "UPDATING"}
          /\ t_live' = [t_live EXCEPT !.table_status = "ACTIVE"]
       \/ \E n \in IndexSet :
             /\ index_status(t_live, n) \in {Some("CREATING"), Some("UPDATING")}
             /\ t_live' = [t_live EXCEPT !.global_secondary_indexes[n] =
                             Some(Index("ACTIVE", @[1].ProvisionedThroughput))]
       \/ \E n \in IndexSet :
             /\ index_status(t_live, n) = Some("DELETING")
             /\ t_live' = [t_live EXCEPT !.global_secondary_indexes[n] = None]
    /\ UNCHANGED <<t_decl, t_cache, t_pc, t_todo, t_ops, t_ret, t_exc, t_calls,
                   t_issued, t_inpass, t_busy, t_prev>>
    /\ UNCHANGED NotTable

\* The operator of the account repairs a table that was not usable.
StoreRecover ==
    /\ t_live.table_status = "INACCESSIBLE_ENCRYPTION_CREDENTIALS"
    /\ t_live' = [t_live EXCEPT !.table_status = "ACTIVE"]
    /\ UNCHANGED <<t_decl, t_cache, t_pc, t_todo, t_ops, t_ret, t_exc, t_calls,
                   t_issued, t_inpass, t_busy, t_prev>>
    /\ UNCHANGED NotTable

NextTable ==
    \/ UpdateTableCall
    \/ UpdateTablePass
    \/ WaitTable
    \/ WaitIndex
    \/ UpdateTableDecide
    \/ StoreSettle
    \/ StoreRecover

SpecTable == InitTable /\ [][NextTable]_vars

\* C22: update_table returns the number of update operations it performed
\* in that invocation: whenever an invocation has returned, the value it
\* returned is the number of operations the store accepted from it.
C22_Claimed ==
    t_pc = "returned" => t_ret = Some(t_issued)

\* The statuses update_table neither accepts nor waits on.
BadTable(table) == table.table_status \notin {"ACTIVE", "CREATING", "UPDATING"}
BadIndex(table, n) ==
    index_status(table, n) \notin
        {None, Some("ACTIVE"), Some("CREATING"), Some("UPDATING"), Some("DELETING")}
NoBad(table) == ~BadTable(table) /\ \A n \in IndexSet : ~BadIndex(table, n)

\* The pass is looking at a status that is neither ACTIVE nor transitional.
BadObserved ==
    \/ t_pc = "wait_table" /\ BadTable(Loaded)
    \/ t_pc = "wait_index" /\ t_todo # <<>> /\ BadIndex(Loaded, Head(t_todo))

\* C25: when the status of the table is neither ACTIVE, CREATING nor
\* UPDATING, or the status of a global index is neither ACTIVE, absent,
\* CREATING, UPDATING nor DELETING, the step of update_table that looks at
\* it raises TableNotActive, and the pass has sent no update operation:
\* TableNotActive is raised only so, and a pass that sent an operation or
\* returned saw no such status.
C25_Raises ==
    /\ [](/\ t_exc = "TableNotActive" =>
                /\ t_pc = "raised"
                /\ t_inpass = 0
                /\ ~NoBad(t_cache[1])
          /\ (t_inpass > 0 \/ t_pc = "returned") => NoBad(t_cache[1]))
    /\ [][BadObserved =>
            /\ t_pc' = "raised"
            /\ t_exc' = "TableNotActive"
            /\ t_inpass' = 0
            /\ t_live' = t_live]_<<t_pc, t_cache, t_todo>>

C25_Witness ==
    /\ t_pc = "raised"
    /\ t_exc = "TableNotActive"
    /\ t_cache[1].table_status = "ACTIVE"
    /\ BadIndex(t_cache[1], "index2")
    /\ index_status(t_cache[1], "index1") = Some("ACTIVE")

\* C26: update_table performs its operations one at a time: no update
\* operation is sent while the table or one of its global indexes is still
\* CREATING, UPDATING or DELETING, and the pass that sent one had seen the
\* table ACTIVE and every listed index ACTIVE or gone.
C26_OneAtATime ==
    /\ ~t_busy
    /\ t_inpass > 0 => Quiet(t_cache[1])

C26_Witness ==
    /\ t_pc = "returned"
    /\ t_issued = 3
    /\ ~t_busy

\* The live table is what the declaration asks for.
Converged(self, table) ==
    /\ (self.read # 0 /\ self.write # 0) =>
            table.provisioned_throughput = <<self.read, self.write>>
    /\ \A n \in IndexSet :
          IF self.indexes[n] = None
          THEN table.global_secondary_indexes[n] = None
          ELSE /\ table.global_secondary_indexes[n] # None
               /\ table.global_secondary_indexes[n][1].ProvisionedThroughput =
                      self.indexes[n][1]

UpdateTableErrors == {"LimitExceededException", "ResourceInUseException"}

\* C27: against a store that accepts every update and brings the table and
\* its indexes back to ACTIVE, update_table ends by returning, never by an
\* exception; on return the live throughput is the declared one, every
\* declared global index exists with its declared capacity, no undeclared
\* one remains, and a repeated update_table performs 0 operations.
C27_Claimed ==
    (/\ NoBad(t_live)
     /\ t_exc \notin UpdateTableErrors \cup {"TableNotActive"}
     /\ t_prev \notin UpdateTableErrors \cup {"TableNotActive"})
    => /\ t_pc # "raised"
       /\ t_pc = "returned" =>
             /\ Converged(t_decl, t_live)
             /\ t_calls > 1 /\ t_prev = "none" => t_issued = 0 /\ t_ret = Some(0)

\* C30: the count is per invocation even after a failure: when the
\* invocation before ended with TableNotActive or a transport error, this
\* invocation still returns the number of operations it issued itself.
C30_Claimed ==
    (t_pc = "returned" /\ t_prev \in UpdateTableErrors \cup {"TableNotActive"})
    => t_ret = Some(t_issued)

(***************************************************************************)
(* DynaModel.save on one instance: the whole document through put, or,     *)
(* with partial=True, the changed fields through update.                   *)
(***************************************************************************)
BAZ == <<"baz">>

\* The items of the fixture: the primary key of 'first', count and baz.
SavePKs == {<<1, 1>>}
SaveItems ==
    {DictSet(DictSet(KeyItem(pk), COUNT, c), BAZ, b) :
        pk \in SavePKs, c \in 1..MaxValue, b \in 1..MaxValue}

\* The order in which the fields of an instance are iterated.
FieldOrder == <<hash_key, range_key, COUNT, BAZ>>

\* updates = dict((k, v) for k, v in self._validated_data.items()
\*                if getattr(self, k) != v), as keyword arguments
PartialUpdates(self, validated) ==
    LET ks == SelectSeq(FieldOrder,
                        LAMBDA k : k \in DOMAIN validated /\ self[k] # validated[k])
    IN  [i \in 1..Len(ks) |-> [key |-> ks[i], value |-> validated[ks[i]]]]

\* Keyword arguments as the dict the callee receives.
KwargsDict(kw) ==
    [k \in {kw[i].key : i \in DOMAIN kw} |->
        kw[CHOOSE i \in DOMAIN kw :
              kw[i].key = k /\ \A j \in DOMAIN kw : kw[j].key = k => j <= i].value]

\* The parameters table.put_item accepts; boto3 refuses any other before it
\* sends anything.
PutItemParams == {"Item", "ConditionExpression", "ReturnValues"}
ValidateParams(request) ==
    IF DOMAIN request \subseteq PutItemParams THEN "none" ELSE "ParamValidationError"

\* save(**kwargs) without partial: the kwargs go through DynaModel.put and
\* Table.put to table.put_item.
SavePutKwargs(unique) ==
    IF unique THEN DictSet(EmptyDict, "unique", TRUE) ELSE EmptyDict

InitSave == PageIdle /\ QueryIdle /\ UpdateIdle /\ StoreIdle /\ ExtraIdle

NotSave == <<pvars, qvars, uvars, x2vars, cvars, tvars>>
StoreRest == <<inst, s_op, s_item, s_exc, s_code, s_sent, s_false, s_pre, s_post>>

\* The fixture puts an item.
SaveSeed ==
    /\ \E item \in SaveItems :
          store' = [store EXCEPT ![KeyOf(item)] = Some(item)]
    /\ UNCHANGED ivars
    /\ UNCHANGED StoreRest
    /\ UNCHANGED NotSave

\* first = Model.get(foo=.., bar=..) on a stored item
SaveGet ==
    /\ \E pk \in SavePKs :
          /\ store[pk] # None
          /\ i_self' = store[pk][1]
          /\ i_valid' = store[pk][1]
          /\ i_base' = store[pk][1]
    /\ i_loaded' = TRUE
    /\ i_op' = "get"
    /\ i_exc' = "none" /\ i_code' = "none"
    /\ i_sent' = None /\ i_puts' = 0
    /\ i_want' = <<>> /\ i_prior' = None
    /\ UNCHANGED <<store, StoreRest>>
    /\ UNCHANGED NotSave

\* second = Model(foo=.., bar=.., ...)
SaveNew ==
    /\ \E item \in SaveItems :
          /\ i_self' = item
          /\ i_valid' = item
          /\ i_base' = item
    /\ i_loaded' = FALSE
    /\ i_op' = "new"
    /\ i_exc' = "none" /\ i_code' = "none"
    /\ i_sent' = None /\ i_puts' = 0
    /\ i_want' = <<>> /\ i_prior' = None
    /\ UNCHANGED <<store, StoreRest>>
    /\ UNCHANGED NotSave

\* first.count = v, first.baz = v
SaveSetAttr ==
    /\ i_op # "none"
    /\ \E k \in {COUNT, BAZ}, v \in 1..MaxValue :
          i_self' = DictSet(i_self, k, v)
    /\ i_op' = "set"
    /\ UNCHANGED <<i_valid, i_loaded, i_exc, i_code, i_sent, i_puts, i_base,
                   i_want, i_prior>>
    /\ UNCHANGED <<store, StoreRest>>
    /\ UNCHANGED NotSave

\* The fields whose value differs from the one last loaded or last saved,
\* with the value they have now.
Changed(self, base) ==
    [k \in {f \in DOMAIN self : f \notin DOMAIN base \/ self[f] # base[f]} |-> self[k]]

\* first.save() and first.save(unique=True): put of the whole document.
SavePut ==
    /\ i_op # "none"
    /\ \E unique \in BOOLEAN, fault \in Faults :
          /\ i_op' = IF unique THEN "save_unique" ELSE "save"
          /\ \E request \in {DictSet(SavePutKwargs(unique), "Item", remove_nones(i_self))} :
                IF ValidateParams(request) # "none"
                THEN /\ i_exc' = ValidateParams(request)
                     /\ i_code' = "none"
                     /\ i_puts' = 0
                     /\ UNCHANGED <<store, i_base>>
                ELSE \E out \in {put_item(store, request, fault)} :
                        /\ store' = out.store
                        /\ i_exc' = out.code
                        /\ i_code' = out.code
                        /\ i_puts' = 1
                        /\ i_base' = IF out.code = "none" THEN i_self ELSE i_base
    /\ i_sent' = None
    /\ i_want' = Changed(i_self, i_base)
    /\ i_prior' = store[KeyOf(i_self)]
    /\ UNCHANGED <<i_self, i_valid, i_loaded>>
    /\ UNCHANGED StoreRest
    /\ UNCHANGED NotSave

\* first.save(partial=True): nothing when no field differs from
\* _validated_data, else self.update(update_item_kwargs={}, **updates), which
\* adds the key, asks for UPDATED_NEW and sets what comes back.
SavePartial ==
    /\ i_op # "none"
    /\ i_op' = "save_partial"
    /\ i_puts' = 0
    /\ i_want' = Changed(i_self, i_base)
    /\ i_prior' = store[KeyOf(i_self)]
    /\ \E fault \in Faults :
          /\ TRUE
          /\ \E updates \in {PartialUpdates(i_self, i_valid)} :
                IF Len(updates) = 0
                THEN /\ fault = "none"
                     /\ i_sent' = None
                     /\ i_exc' = "none" /\ i_code' = "none"
                     /\ UNCHANGED <<store, i_self, i_base>>
                ELSE \E call \in {TableUpdate(ReturnUpdatedNew, CondNone,
                                              AddHashKeyValues(i_self, updates))} :
                        /\ i_sent' = Some(KwargsDict(AddHashKeyValues(i_self, updates)))
                        /\ IF call.exc # "none"
                           THEN /\ fault = "none"
                                /\ i_exc' = call.exc /\ i_code' = "none"
                                /\ UNCHANGED <<store, i_self, i_base>>
                           ELSE \E out \in update_item(store, call.wire[1], fault) :
                                   /\ store' = out.store
                                   /\ i_exc' = UpdateError(out.code)
                                   /\ i_code' = out.code
                                   /\ i_self' = IF out.code = "none"
                                                THEN SetAttrs(i_self, out.resp["Attributes"])
                                                ELSE i_self
                                   /\ i_base' = IF out.code = "none" THEN i_self ELSE i_base
    /\ UNCHANGED <<i_valid, i_loaded>>
    /\ UNCHANGED StoreRest
    /\ UNCHANGED NotSave

NextSave ==
    \/ SaveSeed
    \/ SaveGet
    \/ SaveNew
    \/ SaveSetAttr
    \/ SavePut
    \/ SavePartial

SpecSave == InitSave /\ [][NextSave]_vars

\* The keyword arguments the claim expects update_item to get: the changed
\* fields with their new values, and the primary key.
Expected(self, want) ==
    [k \in DOMAIN want \cup {hash_key, range_key} |->
        IF k \in DOMAIN want THEN want[k] ELSE self[k]]

\* C23: each save(partial=True) on a loaded instance calls no put, and
\* calls update once with exactly the fields whose value differs from the
\* value last loaded or last saved, each with its new value, plus the
\* primary key; when no field differs no update is issued.
C23_Claimed ==
    (i_op = "save_partial" /\ i_loaded) =>
        /\ i_puts = 0
        /\ IF DOMAIN i_want = {}
           THEN i_sent = None
           ELSE i_sent # None /\ i_sent[1] = Expected(i_base, i_want)

\* C24: save(unique=True) on an instance whose primary key is already
\* stored raises HashKeyExists and leaves the stored item as it was; a plain
\* save() that the transport does not fail succeeds and overwrites.
C24_Claimed ==
    /\ (i_op = "save_unique" /\ i_prior # None /\ i_code \in {"none", "ConditionalCheckFailedException"}) =>
          /\ i_exc = "HashKeyExists"
          /\ store[KeyOf(i_self)] = i_prior
    /\ (i_op = "save" /\ i_code = "none") =>
          /\ i_exc = "none"
          /\ store[KeyOf(i_self)] = Some(remove_nones(i_self))

(***************************************************************************)
(* The requests of one paginated query, one after the other.               *)
(***************************************************************************)
\* The first request of the paginated query: what query builds from the
\* caller's query_kwargs and key kwargs.
FirstRequest == TableQuery(dyn0, kwargs).wire[1]

\* C28: every wire request of one paginated query carries the
\* KeyConditionExpression of the first, with exactly one term per key kwarg
\* of the caller, and differs from the first in ExclusiveStartKey and Limit
\* only.
C28_Claimed ==
    (method = "query" /\ wire # None) =>
        /\ wire[1]["KeyConditionExpression"] = FirstRequest["KeyConditionExpression"]
        /\ NumConjuncts(wire[1]["KeyConditionExpression"]) = Len(kwargs)
        /\ \A k \in (DOMAIN wire[1] \cup DOMAIN FirstRequest) \ {"ExclusiveStartKey", "Limit"} :
              /\ k \in DOMAIN wire[1]
              /\ k \in DOMAIN FirstRequest
              /\ wire[1][k] = FirstRequest[k]

(***************************************************************************)
(* The placeholders of an update against the entries they come from.       *)
(***************************************************************************)
\* The mutation entries of the call that are not key attributes, in order.
SetEntries(kw) == SelectSeq(kw, LAMBDA entry : ~IsKeyAttribute(UpdateKey(entry.key)))

====
